---- MODULE Spec2Model ----
(***************************************************************************)
(* A model of scrape-favorites.ts: link discovery (collectFavoriteLinks,   *)
(* collectLinksInScope), the extraction scheduler (processListings) and    *)
(* the orchestration in main.                                              *)
(*                                                                         *)
(* Strings are sequences of one-character strings.  A JavaScript Set is a  *)
(* duplicate-free sequence in insertion order, which is the order          *)
(* Array.from gives back.                                                  *)
(*                                                                         *)
(* A step of the model is the code between two awaits.  The browser and    *)
(* the site are the environment: what a scope shows, whether a scan, a     *)
(* navigation or an extraction throws, and which control is visible are    *)
(* chosen freely.  context.newPage, page.close and the writes to the file  *)
(* system are taken to succeed.                                            *)
(*                                                                         *)
(* The specifications share the variables and are told apart by entry:     *)
(* SpecSched (processListings called with 0..MaxRefs references),          *)
(* SpecDisc (collectLinksInScope on one scope, with the history of the     *)
(* loop recorded), SpecFail (the same loop with queries that throw),       *)
(* SpecFeed (an endless feed), SpecFrame (waitForFavoritesFrame), SpecCanon*)
(* (the canonicalization of one href), SpecNum (parseFrenchNumber),        *)
(* SpecClean (cleanText), SpecExt (extractListing), SpecStart (parseArgs and*)
(* the start of main), SpecMain and SpecPause (main from the creation of   *)
(* the browser context to the exit) and SpecLogin (login-once.ts).         *)
(***************************************************************************)
EXTENDS Integers, Sequences, FiniteSets, TLC

VARIABLES
    entry,              \* the function the run under study enters first
    \* ---- processListings ------------------------------------------------
    ppc,                \* position of processListings: "idle", "running", "returned"
    tasks,              \* the references handed to processListings, in order
    results,            \* results[i]: the record of tasks[i], or Null
    index,              \* the shared index cursor
    wpc,                \* wpc[w]: position of worker w
    wcur,               \* wcur[w]: currentIndex of worker w (0-based, as in the code)
    openPages,          \* the workers that hold an open detail page
    errorsLog,          \* errors.log: the URLs of the entries, in append order
    returned,           \* the list processListings returned
    invoked,            \* invoked[i]: number of extractListing calls for tasks[i]
    failedIdx,          \* the (1-based) positions whose extraction threw
    \* ---- collectLinksInScope --------------------------------------------
    lpc,                \* position of the loop: "idle", "scan", "reveal", "done"
    collected,          \* the running Set of canonical references
    previousCount,      \* the size counter
    idleIterations,     \* the idle-iteration counter
    scopeLinks,         \* the hrefs of the item links the scope shows now
    \* history of the loop (kept when collectLinksInScope is the entry)
    iterations,         \* iterations begun so far
    lastChange,         \* the iteration whose reveal step last changed scopeLinks
    noGrowth,           \* consecutive iterations in which the set did not grow
    onlyAppeared,       \* no link has disappeared from the scope so far
    scanFailed,         \* some scan of this loop failed
    \* ---- collectFavoriteLinks -------------------------------------------
    fpc,                \* "idle", "goto", "primary", "fallback"
    colPageOpen,        \* the collection page is open
    favoritesFrame,     \* waitForFavoritesFrame returned a frame (FALSE: null)
    fCollected,         \* the Set `collected` of collectFavoriteLinks
    fFrames,            \* number of frames the fallback loop goes through
    fIdx,               \* the frame the fallback loop is scanning
    \* ---- main -----------------------------------------------------------
    mpc,                \* "idle", "loop", "inCFL", "extract", "exited"
    nUrls,              \* options.urls.length
    urlIdx,             \* the collection URL the for loop is at (1-based)
    uniqueListingLinks, \* the Set of references over all collection URLs
    warned,             \* the "No listings found" warning was printed
    outputs,            \* the record lists handed to writeOutputs, in order
    exitCode,           \* process.exitCode (0 when never set)
    perUrl,             \* perUrl[c]: the references collectFavoriteLinks returned for URL c
    navFailed,          \* the collection URL whose navigation threw, 0 for none
    \* ---- canonicalization on its own ------------------------------------
    cUrl, cFrag,        \* the inputs
    cOut,               \* the outputs, once computed
    \* ---- main before the browser context exists ------------------------
    startPc,            \* "start", "parseArgs", "launch", "context", "running", "exited"
    argv,               \* process.argv.slice(2)
    stateFile,          \* local/state-seloger.json exists
    options,            \* what parseArgs returned, or Null
    launched,           \* chromium.launch has been called
    written,            \* the files written so far
    exitStatus,         \* the status process.exit was called with, -1 before
    slept,              \* the last politeness delay slept (ms), -1 before
    \* ---- the numeric parsers on their own ------------------------------
    nText,              \* the input: [isNull, chars], a string or null
    nOut,               \* the results, once computed
    \* ---- extractListing on its own -------------------------------------
    xPage,              \* the markers the detail page has
    xUrl,               \* the reference
    xOut,               \* the outcome, once extractListing has ended
    \* ---- responses and signals the environment produces ----------------
    triggers,           \* trigger responses received so far
    signal,             \* the human signal on the terminal: "none", "continue", "abort"
    \* ---- waitForFavoritesFrame on its own ------------------------------
    wfPc,               \* "idle", "polling", "checking", "returned"
    wfFrames,           \* page.frames().length in this pass: frame 1 is the main frame
    wfIdx,              \* the frame the for loop is at
    wfSat,              \* the frames that satisfy the predicate now
    wfPolls,            \* passes over page.frames() completed
    wfSubMatched,       \* an embedded frame has satisfied the predicate at some time
    wfResult,           \* the index of the frame returned, 0 for null
    wfScopes,           \* `scopes` of collectFavoriteLinks, once it is set
    \* collectLinksInScope on a scope whose queries fail
    failedRun,          \* the scans that have failed in a row up to now
    everSucceeded,      \* some scan of this loop did not fail
    seen,               \* the canonical references the scans have returned
    lastReveal,         \* the last reveal step: what firstVisible gave, the
                        \* actions taken, whether the click or scroll succeeded
    \* ---- login-once.ts --------------------------------------------------
    login               \* the run of login-once: its position, argv, options,
                        \* what the human has done, the snapshot, the output

schedVars == <<ppc, tasks, results, index, wpc, wcur, openPages, errorsLog,
               returned, invoked, failedIdx>>

discVars == <<lpc, collected, previousCount, idleIterations, scopeLinks,
              iterations, lastChange, noGrowth, onlyAppeared, scanFailed>>

canonVars == <<cUrl, cFrag, cOut>>

cflVars == <<fpc, colPageOpen, favoritesFrame, fCollected, fFrames, fIdx>>

mainVars == <<mpc, nUrls, urlIdx, uniqueListingLinks, warned, outputs, exitCode,
              perUrl, navFailed>>

startVars == <<startPc, argv, stateFile, options, launched, written, exitStatus,
               slept>>

numVars == <<nText, nOut>>

extVars == <<xPage, xUrl, xOut>>

pauseVars == <<triggers, signal>>

frameVars == <<wfPc, wfFrames, wfIdx, wfSat, wfPolls, wfSubMatched, wfResult,
               wfScopes>>

failVars == <<failedRun, everSucceeded, seen, lastReveal>>

auxVars == <<startVars, numVars, extVars, pauseVars, frameVars, failVars, login>>

coreVars == <<schedVars, discVars, cflVars, mainVars, canonVars>>

vars == <<entry, coreVars, auxVars>>

----------------------------------------------------------------------------
(* Bounds of the model.                                                    *)

MaxRefs == 4            \* most references handed to processListings directly

MaxListing == 2         \* listings a scope can link to

MaxHrefLen == 3         \* longest string given to canonicalize on its own

MaxCollections == 2     \* most collection URLs on the command line

MaxFrames == 2          \* most frames of a collection page, main frame included

(* Program constants.                                                      *)

CONCURRENCY_LIMIT == 3

----------------------------------------------------------------------------
(* Helpers.                                                                *)

Range(s) == {s[i] : i \in 1..Len(s)}

Min(a, b) == IF a <= b THEN a ELSE b

Null == [null |-> TRUE]

\* The URL of listing n: "/" followed by the digits of n (n < 10 here).
Digit(n) == CASE n = 0 -> "0" [] n = 1 -> "1" [] n = 2 -> "2" [] n = 3 -> "3"
              [] n = 4 -> "4" [] n = 5 -> "5" [] n = 6 -> "6" [] n = 7 -> "7"
              [] n = 8 -> "8" [] OTHER -> "9"

ListingUrl(n) == <<"/", Digit(n)>>

----------------------------------------------------------------------------
(* Canonicalization of an item href.                                       *)

MinOf(S) == CHOOSE x \in S : \A y \in S : x <= y

MaxOf(S) == CHOOSE x \in S : \A y \in S : x >= y

HashPositions(s) == {i \in 1..Len(s) : s[i] = "#"}

\* The text before the last '#'.
canonicalizeAtLastHash(href) ==
    IF HashPositions(href) = {} THEN href
    ELSE SubSeq(href, 1, MaxOf(HashPositions(href)) - 1)

\* link.split('#')[0]: the text before the first '#'.
canonicalize(href) ==
    IF HashPositions(href) = {} THEN href
    ELSE SubSeq(href, 1, MinOf(HashPositions(href)) - 1)

----------------------------------------------------------------------------
(* collectLinksInScope                                                     *)

\* The idle ceiling raised by two.
maxIdleIterationsLoose == 6 + 2

maxIdleIterations == 6

Fragment == <<"#", "x">>

\* The hrefs the scopes of collection page c can show, in document order:
\* listing c with and without a fragment, then the `more` listings after it.
PagePoolSeq(c, more) ==
    <<ListingUrl(c), ListingUrl(c) \o Fragment>>
    \o [i \in 1..more |-> ListingUrl(c + i)]

\* A run of main visits pages that share one listing with the next page; a
\* loop entered directly scans a scope over MaxListing listings.
PoolSeq == IF entry = "main" THEN PagePoolSeq(urlIdx, 1)
           ELSE PagePoolSeq(1, MaxListing - 1)

ScopePool == Range(PoolSeq)

\* The canonical references of a set of hrefs.
Canon(links) == {canonicalize(h) : h \in links}

\* Set.prototype.add on an insertion-ordered Set.
SetAdd(set, x) == IF x \in Range(set) THEN set ELSE Append(set, x)

\* gatherListingLinks: the hrefs of the anchors in document order, or [] when
\* the evaluation throws.
gatherListingLinks(links, ok) ==
    IF ok THEN SelectSeq(PoolSeq, LAMBDA h : h \in links) ELSE <<>>

\* The running set replaced by the references of this scan.
RECURSIVE AddLinksFresh(_, _)
AddLinksFresh(set, links) ==
    IF links = <<>> THEN <<>>
    ELSE SetAdd(AddLinksFresh(set, SubSeq(links, 1, Len(links) - 1)),
                canonicalize(links[Len(links)]))

\* for (const link of links) collected.add(link.split('#')[0]);
RECURSIVE AddLinks(_, _)
AddLinks(set, links) ==
    IF links = <<>> THEN set
    ELSE AddLinks(SetAdd(set, canonicalize(Head(links))), Tail(links))

\* The counter update with the reset left out.
UpdateCountersNoReset(newCount, prev, idle) ==
    [previousCount |-> newCount, idleIterations |-> idle + 1]

\* The counter update that forgets to store the new size.
UpdateCountersStaleCount(newCount, prev, idle) ==
    IF newCount = prev
    THEN [previousCount |-> prev, idleIterations |-> idle + 1]
    ELSE [previousCount |-> prev, idleIterations |-> 0]

\* if (newCount === previousCount) idleIterations += 1;
\* else { idleIterations = 0; previousCount = newCount; }
UpdateCounters(newCount, prev, idle) ==
    IF newCount = prev
    THEN [previousCount |-> prev, idleIterations |-> idle + 1]
    ELSE [previousCount |-> newCount, idleIterations |-> 0]

\* The history variables are kept for a loop entered directly.
Hist(new, old) == IF entry = "collectLinksInScope" THEN new ELSE old

\* collectLinksInScope is entered for a scope that shows the links `shown`
\* once the initial waitForSelector has resolved or timed out.
CLSEnter(shown) ==
    /\ collected' = <<>>
    /\ previousCount' = 0
    /\ idleIterations' = 0
    /\ scopeLinks' = shown
    /\ lpc' = IF 0 < maxIdleIterations THEN "scan" ELSE "done"
    /\ iterations' = 0
    /\ lastChange' = 0
    /\ noGrowth' = 0
    /\ onlyAppeared' = TRUE
    /\ scanFailed' = FALSE

\* One scan and the update of the counters (lines 323-334); the evaluation
\* in the scope succeeds (ok) or throws.
ScanWith(ok) ==
    /\ lpc = "scan"
    /\ LET links  == gatherListingLinks(scopeLinks, ok)
           newSet == AddLinks(collected, links)
           upd    == UpdateCounters(Len(newSet), previousCount, idleIterations)
       IN  /\ collected' = newSet
           /\ previousCount' = upd.previousCount
           /\ idleIterations' = upd.idleIterations
           /\ iterations' = Hist(iterations + 1, iterations)
           /\ noGrowth' = Hist(IF Range(newSet) = Range(collected)
                               THEN noGrowth + 1 ELSE 0, noGrowth)
           /\ scanFailed' = Hist(scanFailed \/ ~ok, scanFailed)
    /\ lpc' = "reveal"
    /\ UNCHANGED <<scopeLinks, lastChange, onlyAppeared>>

Scan == \E ok \in BOOLEAN : ScanWith(ok)

\* The rest of the iteration: the reveal action and its waits, during which
\* the scope comes to show the links `shown`, then the loop condition.
RevealStep(shown) ==
    /\ lpc = "reveal"
    /\ scopeLinks' = shown
    /\ lastChange' = Hist(IF shown # scopeLinks THEN iterations ELSE lastChange,
                          lastChange)
    /\ onlyAppeared' = Hist(onlyAppeared /\ scopeLinks \subseteq shown, onlyAppeared)
    /\ lpc' = IF idleIterations < maxIdleIterations THEN "scan" ELSE "done"
    /\ UNCHANGED <<collected, previousCount, idleIterations, iterations, noGrowth,
                   scanFailed>>

\* A reveal-more control is visible: click, wait for network idle, sleep.
\* (What the scope shows afterwards is the site's choice, here as after a
\* scroll.)
ClickLoadMore == \E shown \in SUBSET ScopePool : RevealStep(shown)

\* No control is visible: scroll, sleep, wait for network idle.
ScrollDown == \E shown \in SUBSET ScopePool : RevealStep(shown)

----------------------------------------------------------------------------
(* processListings                                                         *)

Workers == 1..CONCURRENCY_LIMIT

\* The record extractListing returns for a URL (the fields read from the
\* page are left out; url is copied from the argument).
Record(url) == [url |-> url]

\* The cursor read without the increment.
TakeIndexStale(idx) == [currentIndex |-> idx, index |-> idx]

\* const currentIndex = index; index += 1;
TakeIndex(idx) == [currentIndex |-> idx, index |-> idx + 1]

\* A pool of CONCURRENCY_LIMIT workers whatever the number of tasks.
WorkerCountFixed(n) == CONCURRENCY_LIMIT

\* Math.min(CONCURRENCY_LIMIT, tasks.length)
WorkerCount(n) == Min(CONCURRENCY_LIMIT, n)

\* The synchronous prefix of one worker() call, or of one turn of its loop:
\* take an index; past the end the worker breaks, otherwise it calls
\* context.newPage() and suspends.  st = [index, wpc, wcur].
WorkerTake(w, st, n) ==
    LET t == TakeIndex(st.index) IN
    [index |-> t.index,
     wpc   |-> [st.wpc EXCEPT ![w] = IF t.currentIndex >= n THEN "done" ELSE "newPage"],
     wcur  |-> [st.wcur EXCEPT ![w] = t.currentIndex]]

\* Array.from({ length: workerCount }, () => worker()): the calls run one
\* after another, each up to its first await.
RECURSIVE SpawnWorkers(_, _, _, _)
SpawnWorkers(w, count, st, n) ==
    IF w > count THEN st
    ELSE SpawnWorkers(w + 1, count, WorkerTake(w, st, n), n)

\* results.filter((record) => record !== null)
FilterNonNull(res) == SelectSeq(res, LAMBDA r : r # Null)

\* processListings is entered with the list urls.
PLEnter(urls) ==
    LET n  == Len(urls)
        st == SpawnWorkers(1, WorkerCount(n),
                           [index |-> 0,
                            wpc   |-> [w \in Workers |-> "unused"],
                            wcur  |-> [w \in Workers |-> 0]], n)
    IN  /\ tasks' = urls
        /\ results' = [i \in 1..n |-> Null]
        /\ index' = st.index
        /\ wpc' = st.wpc
        /\ wcur' = st.wcur
        /\ openPages' = {}
        /\ UNCHANGED errorsLog
        /\ invoked' = [i \in 1..n |-> 0]
        /\ failedIdx' = {}
        /\ returned' = <<>>
        /\ ppc' = "running"

\* await context.newPage() resolves and the worker calls extractListing at
\* once, the sleep left out.
PageOpenedNoSleep(w) ==
    /\ ppc = "running" /\ wpc[w] = "newPage"
    /\ openPages' = openPages \cup {w}
    /\ invoked' = [invoked EXCEPT ![wcur[w] + 1] = @ + 1]
    /\ wpc' = [wpc EXCEPT ![w] = "extracting"]
    /\ UNCHANGED <<entry, ppc, tasks, results, index, wcur, errorsLog, returned,
                   failedIdx>>

\* await context.newPage() resolves; the worker calls sleep(randomDelay(..)).
PageOpened(w) ==
    /\ ppc = "running" /\ wpc[w] = "newPage"
    /\ openPages' = openPages \cup {w}
    /\ wpc' = [wpc EXCEPT ![w] = "sleep"]
    /\ UNCHANGED <<entry, ppc, tasks, results, index, wcur, errorsLog, returned,
                   invoked, failedIdx>>

\* await sleep(..) resolves; the worker calls extractListing(page, targetUrl).
Slept(w) ==
    /\ ppc = "running" /\ wpc[w] = "sleep"
    /\ invoked' = [invoked EXCEPT ![wcur[w] + 1] = @ + 1]
    /\ wpc' = [wpc EXCEPT ![w] = "extracting"]
    /\ UNCHANGED <<entry, ppc, tasks, results, index, wcur, openPages, errorsLog,
                   returned, failedIdx>>

\* extractListing resolves and the record goes to the first free slot of
\* results, whatever the index of its reference.
ExtractOkFirstFree(w) ==
    /\ ppc = "running" /\ wpc[w] = "extracting"
    /\ LET free == MinOf({i \in 1..Len(results) : results[i] = Null})
       IN  results' = [results EXCEPT ![free] = Record(tasks[wcur[w] + 1])]
    /\ wpc' = [wpc EXCEPT ![w] = "closing"]
    /\ UNCHANGED <<entry, ppc, tasks, index, wcur, openPages, errorsLog, returned,
                   invoked, failedIdx>>

\* extractListing resolves: results[currentIndex] = record; finally calls page.close().
ExtractOk(w) ==
    /\ ppc = "running" /\ wpc[w] = "extracting"
    /\ results' = [results EXCEPT ![wcur[w] + 1] = Record(tasks[wcur[w] + 1])]
    /\ wpc' = [wpc EXCEPT ![w] = "closing"]
    /\ UNCHANGED <<entry, ppc, tasks, index, wcur, openPages, errorsLog, returned,
                   invoked, failedIdx>>

(* A failure that escapes the worker: no catch block, so the worker's promise
   rejects and the worker takes no further reference. *)
ExtractFailEscapes(w) ==
    /\ ppc = "running" /\ wpc[w] = "extracting"
    /\ failedIdx' = failedIdx \cup {wcur[w] + 1}
    /\ wpc' = [wpc EXCEPT ![w] = "done"]
    /\ UNCHANGED <<entry, ppc, tasks, results, index, wcur, openPages, errorsLog,
                   returned, invoked>>

\* extractListing rejects: the catch block calls logError.
ExtractFail(w) ==
    /\ ppc = "running" /\ wpc[w] = "extracting"
    /\ failedIdx' = failedIdx \cup {wcur[w] + 1}
    /\ wpc' = [wpc EXCEPT ![w] = "logging"]
    /\ UNCHANGED <<entry, ppc, tasks, results, index, wcur, openPages, errorsLog,
                   returned, invoked>>

\* logError: one line naming the URL is appended to errors.log.
logError(log, url) == Append(log, url)

\* await logError(..) resolves; finally calls page.close().
Logged(w) ==
    /\ ppc = "running" /\ wpc[w] = "logging"
    /\ errorsLog' = logError(errorsLog, tasks[wcur[w] + 1])
    /\ wpc' = [wpc EXCEPT ![w] = "closing"]
    /\ UNCHANGED <<entry, ppc, tasks, results, index, wcur, openPages, returned,
                   invoked, failedIdx>>

\* The loop takes the next index with the finally block left out: the page
\* stays open.
ClosedPageKept(w) ==
    /\ ppc = "running" /\ wpc[w] = "closing"
    /\ LET st == WorkerTake(w, [index |-> index, wpc |-> wpc, wcur |-> wcur],
                            Len(tasks))
       IN  /\ index' = st.index
           /\ wpc' = st.wpc
           /\ wcur' = st.wcur
    /\ UNCHANGED <<entry, ppc, tasks, results, errorsLog, returned, invoked,
                   failedIdx, openPages>>

\* await page.close() resolves; the loop takes the next index.
Closed(w) ==
    /\ ppc = "running" /\ wpc[w] = "closing"
    /\ LET st == WorkerTake(w, [index |-> index, wpc |-> wpc, wcur |-> wcur],
                            Len(tasks))
       IN  /\ index' = st.index
           /\ wpc' = st.wpc
           /\ wcur' = st.wcur
    /\ openPages' = openPages \ {w}
    /\ UNCHANGED <<entry, ppc, tasks, results, errorsLog, returned, invoked,
                   failedIdx>>

\* Every worker promise has resolved.
AllWorkersDone == \A w \in Workers : wpc[w] \in {"unused", "done"}

\* await Promise.all(..) resolves; processListings returns the filtered list.
PLReturn ==
    /\ ppc = "running" /\ AllWorkersDone
    /\ returned' = FilterNonNull(results)
    /\ ppc' = "returned"
    /\ UNCHANGED <<entry, tasks, results, index, wpc, wcur, openPages, errorsLog,
                   invoked, failedIdx>>

----------------------------------------------------------------------------
(* collectFavoriteLinks and main                                           *)

\* links.forEach((link) => set.add(link)) into an array instead of a Set.
ConcatInto(set, links) == set \o links

\* links.forEach((link) => set.add(link))
RECURSIVE UnionInto(_, _)
UnionInto(set, links) ==
    IF links = <<>> THEN set
    ELSE UnionInto(SetAdd(set, Head(links)), Tail(links))

\* The warning left out.
WarnNever(links) == FALSE

\* if (uniqueListingLinks.size === 0) console.warn(..)
WarnIfEmpty(links) == Len(links) = 0

\* main has created the browser context: it truncates errors.log and starts
\* the loop over options.urls (parseArgs has made sure there is one).
MainBegin ==
    /\ entry = "main" /\ mpc = "idle"
    /\ \E n \in 1..MaxCollections :
         /\ nUrls' = n
         /\ perUrl' = [c \in 1..n |-> {}]
    /\ errorsLog' = <<>>
    /\ uniqueListingLinks' = <<>>
    /\ urlIdx' = 1
    /\ mpc' = "loop"
    /\ UNCHANGED <<entry, ppc, tasks, results, index, wpc, wcur, openPages,
                   returned, invoked, failedIdx, discVars, cflVars, warned,
                   outputs, exitCode, navFailed, canonVars, auxVars>>

\* The loop calls collectFavoriteLinks for the next URL: context.newPage(),
\* then page.goto(url).
CFLCall ==
    /\ mpc = "loop" /\ urlIdx <= nUrls
    /\ fpc' = "goto"
    /\ colPageOpen' = TRUE
    /\ favoritesFrame' = FALSE
    /\ fCollected' = <<>>
    /\ fFrames' = 0
    /\ fIdx' = 0
    /\ mpc' = "inCFL"
    /\ UNCHANGED <<entry, schedVars, discVars, nUrls, urlIdx, uniqueListingLinks,
                   warned, outputs, exitCode, perUrl, navFailed, canonVars, auxVars>>

(* A navigation failure that is contained: the page is closed, the URL
   yields no reference and the loop goes on to the next URL. *)
GotoFailContained ==
    /\ fpc = "goto"
    /\ fpc' = "idle"
    /\ colPageOpen' = FALSE
    /\ navFailed' = urlIdx
    /\ urlIdx' = urlIdx + 1
    /\ mpc' = "loop"
    /\ UNCHANGED <<entry, schedVars, discVars, favoritesFrame, fCollected, fFrames,
                   fIdx, nUrls, uniqueListingLinks, warned, outputs, exitCode,
                   perUrl, canonVars, auxVars>>

\* page.goto, waitForLoadState or waitForSelector throws: the finally block
\* of collectFavoriteLinks closes the page, the error reaches the catch block
\* of main, which sets process.exitCode = 1; its finally block closes the
\* context and the browser.
GotoFail ==
    /\ fpc = "goto"
    /\ fpc' = "idle"
    /\ colPageOpen' = FALSE
    /\ navFailed' = urlIdx
    /\ exitCode' = 1
    /\ mpc' = "exited"
    /\ UNCHANGED <<entry, schedVars, discVars, favoritesFrame, fCollected, fFrames,
                   fIdx, nUrls, urlIdx, uniqueListingLinks, warned, outputs,
                   perUrl, canonVars, auxVars>>

\* The page has loaded; waitForFavoritesFrame returns a frame (found) or
\* null; collectLinksInScope is called for that frame, or for the page.
GotoOk ==
    /\ fpc = "goto"
    /\ \E found \in BOOLEAN : favoritesFrame' = found
    /\ \E shown \in SUBSET ScopePool : CLSEnter(shown)
    /\ fCollected' = <<>>
    /\ fpc' = "primary"
    /\ UNCHANGED <<entry, schedVars, colPageOpen, fFrames, fIdx, mainVars,
                   canonVars, auxVars>>

\* collectFavoriteLinks returns Array.from(collected): its finally block
\* closes the page, and main adds the links to uniqueListingLinks.
CFLReturn(links) ==
    /\ perUrl' = [perUrl EXCEPT ![urlIdx] = Range(links)]
    /\ uniqueListingLinks' = UnionInto(uniqueListingLinks, links)
    /\ urlIdx' = urlIdx + 1
    /\ mpc' = "loop"
    \* the page is closed and the locals of the two functions are gone
    /\ colPageOpen' = FALSE
    /\ fpc' = "idle"
    /\ favoritesFrame' = FALSE
    /\ fCollected' = <<>>
    /\ fFrames' = 0
    /\ fIdx' = 0
    /\ lpc' = "idle"
    /\ collected' = <<>>
    /\ previousCount' = 0
    /\ idleIterations' = 0
    /\ scopeLinks' = {}
    /\ UNCHANGED <<entry, schedVars, iterations, lastChange, noGrowth,
                   onlyAppeared, scanFailed, nUrls, warned, outputs, exitCode,
                   navFailed, canonVars, auxVars>>

\* The fallback taken whenever nothing was collected.
NeedsFallbackWheneverEmpty(set, frame) == Len(set) = 0

\* if (collected.size === 0 && !favoritesFrame)
NeedsFallback(set, frame) == Len(set) = 0 /\ ~frame

\* The primary scope has been scanned and the fallback is not taken.
PrimaryDone ==
    /\ fpc = "primary" /\ lpc = "done"
    /\ ~NeedsFallback(UnionInto(fCollected, collected), favoritesFrame)
    /\ CFLReturn(UnionInto(fCollected, collected))

\* The primary scope gave nothing and no frame was detected: the fallback
\* loop starts with the first of the frames page.frames() returns (the main
\* frame is one of them).
PrimaryDoneFallback ==
    /\ fpc = "primary" /\ lpc = "done"
    /\ NeedsFallback(UnionInto(fCollected, collected), favoritesFrame)
    /\ fCollected' = UnionInto(fCollected, collected)
    /\ \E frames \in 1..MaxFrames : fFrames' = frames
    /\ fIdx' = 1
    /\ fpc' = "fallback"
    /\ \E shown \in SUBSET ScopePool : CLSEnter(shown)
    /\ UNCHANGED <<entry, schedVars, colPageOpen, favoritesFrame, mainVars,
                   canonVars, auxVars>>

\* One frame of the fallback loop has been scanned; the next one is scanned.
FallbackNext ==
    /\ fpc = "fallback" /\ lpc = "done" /\ fIdx < fFrames
    /\ fCollected' = UnionInto(fCollected, collected)
    /\ fIdx' = fIdx + 1
    /\ \E shown \in SUBSET ScopePool : CLSEnter(shown)
    /\ UNCHANGED <<entry, schedVars, fpc, colPageOpen, favoritesFrame, fFrames,
                   mainVars, canonVars, auxVars>>

\* The last frame of the fallback loop has been scanned.
FallbackDone ==
    /\ fpc = "fallback" /\ lpc = "done" /\ fIdx >= fFrames
    /\ CFLReturn(UnionInto(fCollected, collected))

\* processListings called from within the loop, before every collection
\* URL has been visited.
MainExtractEarly ==
    /\ mpc = "loop"
    /\ warned' = WarnIfEmpty(uniqueListingLinks)
    /\ PLEnter(uniqueListingLinks)
    /\ mpc' = "extract"
    /\ UNCHANGED <<entry, discVars, cflVars, nUrls, urlIdx, uniqueListingLinks,
                   outputs, exitCode, perUrl, navFailed, canonVars, auxVars>>

\* After the loop: the warning when nothing was found, then
\* processListings(Array.from(uniqueListingLinks), ..).
MainExtract ==
    /\ mpc = "loop" /\ urlIdx > nUrls
    /\ warned' = WarnIfEmpty(uniqueListingLinks)
    /\ PLEnter(uniqueListingLinks)
    /\ mpc' = "extract"
    /\ UNCHANGED <<entry, discVars, cflVars, nUrls, urlIdx, uniqueListingLinks,
                   outputs, exitCode, perUrl, navFailed, canonVars, auxVars>>

\* processListings has returned: writeOutputs(listings, ..), the summary
\* line, and the finally block.
MainWrite ==
    /\ mpc = "extract" /\ ppc = "returned"
    /\ outputs' = Append(outputs, returned)
    /\ mpc' = "exited"
    /\ UNCHANGED <<entry, schedVars, discVars, cflVars, nUrls, urlIdx,
                   uniqueListingLinks, warned, exitCode, perUrl, navFailed,
                   canonVars, auxVars>>

----------------------------------------------------------------------------
(* processListings called on its own with N = 0..MaxRefs references.       *)

RefList(n) == [i \in 1..n |-> ListingUrl(i)]

SchedIdle ==
    /\ ppc = "idle"
    /\ tasks = <<>>
    /\ results = <<>>
    /\ index = 0
    /\ wpc = [w \in Workers |-> "unused"]
    /\ wcur = [w \in Workers |-> 0]
    /\ openPages = {}
    /\ errorsLog = <<>>
    /\ returned = <<>>
    /\ invoked = <<>>
    /\ failedIdx = {}

DiscIdle ==
    /\ lpc = "idle"
    /\ collected = <<>>
    /\ previousCount = 0
    /\ idleIterations = 0
    /\ scopeLinks = {}
    /\ iterations = 0
    /\ lastChange = 0
    /\ noGrowth = 0
    /\ onlyAppeared = TRUE
    /\ scanFailed = FALSE

CflIdle ==
    /\ fpc = "idle"
    /\ colPageOpen = FALSE
    /\ favoritesFrame = FALSE
    /\ fCollected = <<>>
    /\ fFrames = 0
    /\ fIdx = 0

MainIdle ==
    /\ mpc = "idle"
    /\ nUrls = 0
    /\ urlIdx = 0
    /\ uniqueListingLinks = <<>>
    /\ warned = FALSE
    /\ outputs = <<>>
    /\ exitCode = 0
    /\ perUrl = <<>>
    /\ navFailed = 0

CanonIdle ==
    /\ cUrl = <<>>
    /\ cFrag = <<>>
    /\ cOut = <<>>

StartIdle ==
    /\ startPc = "idle"
    /\ argv = <<>>
    /\ stateFile = TRUE
    /\ options = Null
    /\ launched = FALSE
    /\ written = {}
    /\ exitStatus = -1
    /\ slept = -1

NumIdle ==
    /\ nText = [isNull |-> TRUE, chars |-> <<>>]
    /\ nOut = Null

ExtIdle ==
    /\ xPage = {}
    /\ xUrl = <<>>
    /\ xOut = Null

PauseIdle ==
    /\ triggers = 0
    /\ signal = "none"

FrameIdle ==
    /\ wfPc = "idle"
    /\ wfFrames = 0
    /\ wfIdx = 0
    /\ wfSat = {}
    /\ wfPolls = 0
    /\ wfSubMatched = FALSE
    /\ wfResult = 0
    /\ wfScopes = <<>>

FailIdle ==
    /\ failedRun = 0
    /\ everSucceeded = FALSE
    /\ seen = {}
    /\ lastReveal = [located |-> "notRun", actions |-> <<>>, ok |-> TRUE]

LoginIdle == login = [pc |-> "idle"]

AuxIdle ==
    /\ StartIdle /\ NumIdle /\ ExtIdle /\ PauseIdle /\ FrameIdle /\ FailIdle
    /\ LoginIdle

InitSched ==
    /\ entry = "processListings"
    /\ SchedIdle
    /\ DiscIdle
    /\ CflIdle
    /\ MainIdle
    /\ CanonIdle
    /\ AuxIdle

CallProcessListings ==
    /\ entry = "processListings" /\ ppc = "idle"
    /\ \E n \in 0..MaxRefs : PLEnter(RefList(n))
    /\ UNCHANGED <<entry, discVars, cflVars, mainVars, canonVars, auxVars>>

WorkerStep ==
    \E w \in Workers :
        \/ PageOpened(w)
        \/ Slept(w)
        \/ ExtractOk(w)
        \/ ExtractFail(w)
        \/ Logged(w)
        \/ Closed(w)

NextSched ==
    \/ CallProcessListings
    \/ WorkerStep /\ UNCHANGED <<discVars, cflVars, mainVars, canonVars, auxVars>>
    \/ PLReturn /\ UNCHANGED <<discVars, cflVars, mainVars, canonVars, auxVars>>

SpecSched == InitSched /\ [][NextSched]_vars

----------------------------------------------------------------------------
(* collectLinksInScope called on its own, for any scope over ScopePool.    *)

InitDisc ==
    /\ entry = "collectLinksInScope"
    /\ SchedIdle
    /\ DiscIdle
    /\ CflIdle
    /\ MainIdle
    /\ CanonIdle
    /\ AuxIdle

CallCollectLinksInScope ==
    /\ entry = "collectLinksInScope" /\ lpc = "idle"
    /\ \E shown \in SUBSET ScopePool : CLSEnter(shown)
    /\ UNCHANGED <<entry, schedVars, cflVars, mainVars, canonVars, auxVars>>

NextDisc ==
    \/ CallCollectLinksInScope
    \/ Scan /\ UNCHANGED <<entry, schedVars, cflVars, mainVars, canonVars, auxVars>>
    \/ ClickLoadMore /\ UNCHANGED <<entry, schedVars, cflVars, mainVars, canonVars, auxVars>>
    \/ ScrollDown /\ UNCHANGED <<entry, schedVars, cflVars, mainVars, canonVars, auxVars>>

SpecDisc == InitDisc /\ [][NextDisc]_vars

----------------------------------------------------------------------------
(* canonicalize applied to every href of at most MaxHrefLen characters.    *)

HrefChars == {"/", "1", "#"}

Hrefs == UNION {[1..n -> HrefChars] : n \in 0..MaxHrefLen}

InitCanon ==
    /\ entry = "canonicalize"
    /\ SchedIdle
    /\ DiscIdle
    /\ CflIdle
    /\ MainIdle
    /\ cUrl \in Hrefs
    /\ cFrag \in Hrefs
    /\ cOut = <<>>
    /\ AuxIdle

\* canonicalize on url + "#" + frag, on url, and on its own result.
ApplyCanonicalize ==
    /\ entry = "canonicalize" /\ cOut = <<>>
    /\ cOut' = <<canonicalize(cUrl \o <<"#">> \o cFrag),
                 canonicalize(cUrl),
                 canonicalize(canonicalize(cUrl \o <<"#">> \o cFrag)),
                 canonicalize(canonicalize(cUrl))>>
    /\ UNCHANGED <<entry, schedVars, discVars, cflVars, mainVars, cUrl, cFrag, auxVars>>

NextCanon == ApplyCanonicalize

SpecCanon == InitCanon /\ [][NextCanon]_vars

----------------------------------------------------------------------------
(* A run of main from the creation of the browser context on.              *)

InitMain ==
    /\ entry = "main"
    /\ SchedIdle
    /\ DiscIdle
    /\ CflIdle
    /\ MainIdle
    /\ CanonIdle
    /\ AuxIdle

NextMain ==
    \/ MainBegin
    \/ CFLCall
    \/ GotoFail
    \/ GotoOk
    \/ Scan /\ UNCHANGED <<entry, schedVars, cflVars, mainVars, canonVars, auxVars>>
    \/ ClickLoadMore /\ UNCHANGED <<entry, schedVars, cflVars, mainVars, canonVars, auxVars>>
    \/ ScrollDown /\ UNCHANGED <<entry, schedVars, cflVars, mainVars, canonVars, auxVars>>
    \/ PrimaryDone
    \/ PrimaryDoneFallback
    \/ FallbackNext
    \/ FallbackDone
    \/ MainExtract
    \/ WorkerStep /\ UNCHANGED <<discVars, cflVars, mainVars, canonVars, auxVars>>
    \/ PLReturn /\ UNCHANGED <<discVars, cflVars, mainVars, canonVars, auxVars>>
    \/ MainWrite

SpecMain == InitMain /\ [][NextMain]_vars

----------------------------------------------------------------------------
(* Properties of processListings.                                          *)

ActiveWorkers == {w \in Workers : wpc[w] \notin {"unused", "done"}}

FailedUrls == {tasks[i] : i \in failedIdx}

(* C1: no reference is ever handed to two workers or extracted twice, the
   cursor counts exactly the takes made so far (read and increment are one
   step), and when processListings has returned extractListing has been
   invoked exactly once for every reference, failures included. *)
C1_ExactlyOnce ==
    /\ \A i \in 1..Len(tasks) : invoked[i] <= 1
    /\ \A w1, w2 \in ActiveWorkers : w1 # w2 => wcur[w1] # wcur[w2]
    /\ \A w \in Workers : wpc[w] # "unused" => wcur[w] < index
    /\ ppc = "returned" => \A i \in 1..Len(tasks) : invoked[i] = 1

C1_Witness ==
    /\ ppc = "returned"
    /\ Len(tasks) > CONCURRENCY_LIMIT
    /\ failedIdx # {}
    /\ \A i \in 1..Len(tasks) : invoked[i] = 1

(* C2: with F failing references out of M the result has M - F records, none
   for a failed reference and one for every other reference, errors.log has
   exactly one entry per failed reference naming its URL, and a worker only
   stops when the cursor has run past the end of the list. *)
C2_PerItemIsolation ==
    /\ \A w \in Workers : wpc[w] = "done" => wcur[w] >= Len(tasks)
    /\ ppc = "returned" =>
          /\ Len(returned) = Len(tasks) - Cardinality(failedIdx)
          /\ Len(errorsLog) = Cardinality(failedIdx)
          /\ Range(errorsLog) = FailedUrls
          /\ \A j \in 1..Len(returned) : returned[j].url \notin FailedUrls
          /\ \A i \in 1..Len(tasks) :
                i \notin failedIdx => Record(tasks[i]) \in Range(returned)

C2_Witness ==
    /\ ppc = "returned"
    /\ Len(tasks) = 3
    /\ failedIdx = {1}
    /\ Len(returned) = 2
    /\ errorsLog = <<tasks[1]>>
    /\ \E w \in Workers : wcur[w] > 3

(* C3: processListings starts exactly min(3, N) workers, and at most
   min(3, N) detail pages are open at any time (none when N = 0). *)
C3_BoundedPool ==
    /\ ppc # "idle" =>
          Cardinality({w \in Workers : wpc[w] # "unused"}) = Min(3, Len(tasks))
    /\ Cardinality(openPages) <= Min(3, Len(tasks))
    /\ openPages \subseteq ActiveWorkers

C3_Witness ==
    /\ Len(tasks) > 3
    /\ Cardinality(openPages) = 3

----------------------------------------------------------------------------
(* Properties of collectLinksInScope (history kept: SpecDisc).             *)

LoopDone == entry = "collectLinksInScope" /\ lpc = "done"

\* The scope only gained links, last changed in the reveal step of iteration
\* lastChange (0: never), and every scan succeeded.
StabilizedCleanly == onlyAppeared /\ ~scanFailed

(* C4 as stated: for a scope whose links stop changing after k iterations the
   loop ends within k + 6 iterations and returns exactly the canonical
   references of the stabilized set. *)
C4_AsStated ==
    (LoopDone /\ StabilizedCleanly) =>
        /\ iterations <= lastChange + 6
        /\ Range(collected) = Canon(scopeLinks)

(* C4 amended: for a scope that only gains links, stops changing after k
   iterations and whose scans succeed, the loop ends within k + 7 iterations
   and returns a subset of the stabilized canonical set; it returns exactly
   that set whenever it ran more than k iterations. *)
C4_Convergence ==
    (LoopDone /\ StabilizedCleanly) =>
        /\ iterations <= lastChange + 7
        /\ Range(collected) \subseteq Canon(scopeLinks)
        /\ iterations > lastChange => Range(collected) = Canon(scopeLinks)

C4_Witness ==
    /\ LoopDone /\ StabilizedCleanly
    /\ lastChange = 2
    /\ iterations = lastChange + 7
    /\ Len(collected) = 2
    /\ Range(collected) = Canon(scopeLinks)

(* C5: the loop exits exactly when the set has failed to grow in 6
   consecutive iterations: the idle counter stays within 0..6, the loop is
   done only with 6 consecutive non-growing iterations behind it, no scan
   starts once there are 6, and a loop that never found a link ends after
   exactly 6 iterations. *)
C5_IdleCeiling ==
    /\ idleIterations \in 0..6
    /\ entry = "collectLinksInScope" =>
          /\ noGrowth <= 6
          /\ lpc = "done" => noGrowth = 6
          /\ lpc = "scan" => noGrowth < 6
          /\ (lpc = "done" /\ collected = <<>>) => iterations = 6

C5_Witness ==
    /\ LoopDone
    /\ noGrowth = 6
    /\ iterations = 11
    /\ Len(collected) = 1

(* C6: in the update step of every iteration the size counter does not
   decrease and ends equal to the size of the running set, the idle counter
   becomes 0 exactly when the set grew and otherwise goes up by 1; the rest
   of the iteration leaves both counters alone. *)
C6_Counters ==
    [][/\ (lpc = "scan" /\ lpc' = "reveal") =>
            /\ previousCount' >= previousCount
            /\ previousCount' = Len(collected')
            /\ IF Len(collected') > Len(collected)
               THEN idleIterations' = 0
               ELSE idleIterations' = idleIterations + 1
       /\ lpc = "reveal" =>
            /\ previousCount' = previousCount
            /\ idleIterations' = idleIterations]_vars

C6_Witness ==
    /\ entry = "collectLinksInScope" /\ lpc = "reveal"
    /\ iterations = 4
    /\ idleIterations = 0
    /\ previousCount = 2
    /\ Len(collected) = 2

----------------------------------------------------------------------------
(* Properties of canonicalize (SpecCanon).                                 *)

(* C7: canonicalize(url + "#" + frag) = canonicalize(url) for every url and
   fragment, and canonicalize is idempotent on both. *)
C7_Canonicalize ==
    cOut # <<>> =>
        /\ cOut[1] = cOut[2]
        /\ cOut[3] = cOut[1]
        /\ cOut[4] = cOut[2]

C7_Witness ==
    /\ cOut # <<>>
    /\ cUrl = <<"/", "#", "1">>
    /\ cFrag = <<"1", "#">>
    /\ cOut[1] = <<"/">>

----------------------------------------------------------------------------
(* Properties of main (SpecMain).                                          *)

DiscoveryOver == mpc \in {"extract", "exited"} /\ navFailed = 0

(* C8: the list handed to processListings is the Set built by main; its
   members are exactly the references collectFavoriteLinks returned for the
   collection URLs, none appears twice, none carries a fragment, and for two
   collection URLs yielding A and B its size is |A| + |B| - |A \cap B|. *)
C8_UnionOfReferences ==
    DiscoveryOver =>
        /\ tasks = uniqueListingLinks
        /\ Range(tasks) = UNION {perUrl[c] : c \in 1..nUrls}
        /\ \A i, j \in 1..Len(tasks) : i # j => tasks[i] # tasks[j]
        /\ \A i \in 1..Len(tasks) : "#" \notin Range(tasks[i])
        /\ nUrls = 2 =>
             Len(tasks) = Cardinality(perUrl[1]) + Cardinality(perUrl[2])
                          - Cardinality(perUrl[1] \cap perUrl[2])

C8_Witness ==
    /\ DiscoveryOver
    /\ nUrls = 2
    /\ Cardinality(perUrl[1]) = 2
    /\ Cardinality(perUrl[2]) = 2
    /\ Cardinality(perUrl[1] \cap perUrl[2]) = 1
    /\ Len(tasks) = 3

(* C9 as stated: when the navigation of one of several collection URLs has
   failed, the run still goes through every collection URL and writes the
   records of the references found. *)
C9_AsStated ==
    (mpc = "exited" /\ navFailed # 0 /\ nUrls > 1) =>
        /\ urlIdx > nUrls
        /\ Len(outputs) = 1

(* C9 amended: a navigation failure of a collection URL ends the whole run:
   the for loop stops at that URL, no detail page is opened, processListings
   and the writer are never called, and the exit status is 1. *)
C9_NavigationFailureIsFatal ==
    navFailed # 0 =>
        /\ mpc = "exited"
        /\ urlIdx = navFailed
        /\ exitCode = 1
        /\ ppc = "idle"
        /\ openPages = {}
        /\ ~colPageOpen
        /\ outputs = <<>>

C9_Witness ==
    /\ mpc = "exited"
    /\ nUrls = 2
    /\ navFailed = 2
    /\ Len(uniqueListingLinks) = 2
    /\ outputs = <<>>
    /\ exitCode = 1

(* C10: when discovery ends with no reference at all, the warning has been
   printed, no worker is started and no detail page is opened, the writer
   gets the empty list, and the exit status stays 0. *)
C10_EmptyRun ==
    (DiscoveryOver /\ uniqueListingLinks = <<>>) =>
        /\ warned
        /\ \A w \in Workers : wpc[w] = "unused"
        /\ openPages = {}
        /\ exitCode = 0
        /\ mpc = "exited" => outputs = << <<>> >>

C10_Witness ==
    /\ mpc = "exited"
    /\ navFailed = 0
    /\ nUrls = 2
    /\ uniqueListingLinks = <<>>
    /\ warned
    /\ outputs = << <<>> >>
    /\ exitCode = 0

----------------------------------------------------------------------------
(* main from its first line to the truncation of errors.log: the check of  *)
(* the session snapshot, parseArgs, chromium.launch, the browser context.  *)
(* ensureLocalDir creates the directory local/ before anything else; it    *)
(* writes no file.                                                         *)

MaxArgs == 3            \* most command-line arguments

DEFAULT_DELAY_RANGE == [min |-> 1000, max |-> 2000]

OptOut == <<"-", "-", "o", "u", "t">>

OptDelayMin == <<"-", "-", "d", "e", "l", "a", "y", "-", "m", "i", "n">>

OptDelayMax == <<"-", "-", "d", "e", "l", "a", "y", "-", "m", "a", "x">>

OptHeaded == <<"-", "-", "h", "e", "a", "d", "e", "d">>

\* The arguments the model draws argv from: the three options of parseArgs,
\* an option it does not know, a URL, and delay values.
ArgTokens == {OptOut, OptDelayMin, OptDelayMax, OptHeaded, <<"u">>,
              <<"1", "5", "0", "0">>, <<"5">>, <<"-", "1">>, <<"5", "x">>}

DigitChars == {Digit(n) : n \in 0..9}

DigitValue(c) == CHOOSE n \in 0..9 : Digit(n) = c

\* The number a string of decimal digits denotes ("" gives 0).
RECURSIVE DecimalValue(_)
DecimalValue(s) ==
    IF s = <<>> THEN 0
    ELSE 10 * DecimalValue(SubSeq(s, 1, Len(s) - 1)) + DigitValue(s[Len(s)])

\* The length of the longest run of digits of s that starts at position i.
RECURSIVE DigitRun(_, _)
DigitRun(s, i) ==
    IF i <= Len(s) /\ s[i] \in DigitChars THEN 1 + DigitRun(s, i + 1) ELSE 0

NaN == [nan |-> TRUE, val |-> 0]

Num(v) == [nan |-> FALSE, val |-> v]

\* Number.parseInt(s, 10) on a string without leading white space: an
\* optional sign, then the longest run of digits; what follows the digits is
\* ignored, and NaN is the result when there is no digit.
parseInt(s) ==
    LET signed == Len(s) > 0 /\ s[1] \in {"-", "+"}
        from   == IF signed THEN 2 ELSE 1
        run    == DigitRun(s, from)
        mag    == DecimalValue(SubSeq(s, from, from + run - 1))
    IN  IF run = 0 THEN NaN
        ELSE IF signed /\ s[1] = "-" THEN Num(0 - mag) ELSE Num(mag)

startsWithDashes(arg) == Len(arg) >= 2 /\ arg[1] = "-" /\ arg[2] = "-"

ArgError(message) == [error |-> message]

IsArgError(r) == "error" \in DOMAIN r

\* argv[i], or the empty string for the `undefined` past the end: both make
\* `!next` true.
ArgAt(args, i) == IF i <= Len(args) THEN args[i] ELSE <<>>

\* The checks of parseArgs after its loop.
parseArgsEnd(st) ==
    IF Len(st.urls) = 0
    THEN ArgError("Please provide at least one favorites URL.")
    ELSE IF st.delayMax < st.delayMin
    THEN ArgError("--delay-max must be greater than or equal to --delay-min")
    ELSE [urls |-> st.urls, outPath |-> st.outPath,
          delayRange |-> [min |-> st.delayMin, max |-> st.delayMax]]

\* The loop of parseArgs from index i (1-based here).
RECURSIVE parseArgsFrom(_, _, _)
parseArgsFrom(args, i, st) ==
    IF i > Len(args) THEN parseArgsEnd(st)
    ELSE
    LET arg  == args[i]
        next == ArgAt(args, i + 1)
        n    == parseInt(next)
    IN  IF arg = OptOut
        THEN IF next = <<>> THEN ArgError("--out requires a path value")
             ELSE parseArgsFrom(args, i + 2, [st EXCEPT !.outPath = next])
        ELSE IF arg = OptDelayMin
        THEN IF next = <<>> THEN ArgError("--delay-min requires a numeric value")
             ELSE IF n.nan \/ n.val < 0
             THEN ArgError("--delay-min must be a non-negative integer")
             ELSE parseArgsFrom(args, i + 2, [st EXCEPT !.delayMin = n.val])
        ELSE IF arg = OptDelayMax
        THEN IF next = <<>> THEN ArgError("--delay-max requires a numeric value")
             ELSE IF n.nan \/ n.val < 0
             THEN ArgError("--delay-max must be a non-negative integer")
             ELSE parseArgsFrom(args, i + 2, [st EXCEPT !.delayMax = n.val])
        ELSE IF startsWithDashes(arg)
        THEN ArgError("Unknown option")
        ELSE parseArgsFrom(args, i + 1, [st EXCEPT !.urls = Append(@, arg)])

parseArgs(args) ==
    parseArgsFrom(args, 1, [urls |-> <<>>, outPath |-> <<>>,
                            delayMin |-> DEFAULT_DELAY_RANGE.min,
                            delayMax |-> DEFAULT_DELAY_RANGE.max])

\* process.exit(code): nothing of main runs after it.
Exit(code) ==
    /\ startPc' = "exited"
    /\ exitStatus' = code

\* fs.access(statePath), and the exit when it throws.
CheckState ==
    /\ startPc = "start"
    /\ IF stateFile
       THEN startPc' = "parseArgs" /\ UNCHANGED exitStatus
       ELSE Exit(1)
    /\ UNCHANGED <<entry, coreVars, argv, stateFile, options, launched, written,
                   slept, numVars, extVars, pauseVars, frameVars, failVars, login>>

\* options = parseArgs(process.argv.slice(2)), and the exit when it throws.
ParseArgs ==
    /\ startPc = "parseArgs"
    /\ LET r == parseArgs(argv)
       IN  IF IsArgError(r)
           THEN Exit(1) /\ UNCHANGED options
           ELSE startPc' = "launch" /\ options' = r /\ UNCHANGED exitStatus
    /\ UNCHANGED <<entry, coreVars, argv, stateFile, launched, written, slept,
                   numVars, extVars, pauseVars, frameVars, failVars, login>>

\* chromium.launch(...).
LaunchBrowser ==
    /\ startPc = "launch"
    /\ launched' = TRUE
    /\ startPc' = "context"
    /\ UNCHANGED <<entry, coreVars, argv, stateFile, options, written, exitStatus,
                   slept, numVars, extVars, pauseVars, frameVars, failVars, login>>

\* browser.newContext, applyStealth and fs.writeFile(errorsPath, ''): the
\* first file main writes.  The loop over options.urls follows (SpecMain).
CreateContext ==
    /\ startPc = "context"
    /\ written' = written \cup {"errors.log"}
    /\ startPc' = "running"
    /\ UNCHANGED <<entry, coreVars, argv, stateFile, options, launched, exitStatus,
                   slept, numVars, extVars, pauseVars, frameVars, failVars, login>>

\* Math.random() gives a multiple of 1 / RandomResolution in [0, 1); the
\* resolution is finer than any delay range of the model is wide.
RandomResolution == 2 * (DEFAULT_DELAY_RANGE.max + 1)

\* The draws of Math.random() the model takes, as numerators: the least,
\* the next, the middle and the greatest.
RandomDraws == {0, 1, RandomResolution \div 2, RandomResolution - 1}

\* x rounded up, for x = num / den with num >= 0.
Ceil(num, den) == (num + den - 1) \div den

\* The delay rounded up instead of down.
randomDelayCeil(range, draw) ==
    IF range.max <= range.min THEN range.min
    ELSE LET delta == range.max - range.min
         IN  range.min + Ceil(draw * (delta + 1), RandomResolution)

\* randomDelay(range) when Math.random() gives draw / RandomResolution.
randomDelay(range, draw) ==
    IF range.max <= range.min THEN range.min
    ELSE LET delta == range.max - range.min
         IN  range.min + (draw * (delta + 1)) \div RandomResolution

\* await sleep(randomDelay(delayRange)) in discovery (after a click, after a
\* scroll) or in a worker, with the delayRange main passes on.
SleepDelay ==
    /\ startPc = "running"
    /\ \E draw \in RandomDraws : slept' = randomDelay(options.delayRange, draw)
    /\ UNCHANGED <<entry, coreVars, startPc, argv, stateFile, options, launched,
                   written, exitStatus, numVars, extVars, pauseVars, frameVars,
                   failVars, login>>

Argvs == UNION {[1..n -> ArgTokens] : n \in 0..MaxArgs}

InitStart ==
    /\ entry = "start"
    /\ SchedIdle
    /\ DiscIdle
    /\ CflIdle
    /\ MainIdle
    /\ CanonIdle
    /\ NumIdle /\ ExtIdle /\ PauseIdle /\ FrameIdle /\ FailIdle /\ LoginIdle
    /\ startPc = "start"
    /\ argv \in Argvs
    /\ stateFile \in BOOLEAN
    /\ options = Null
    /\ launched = FALSE
    /\ written = {}
    /\ exitStatus = -1
    /\ slept = -1

NextStart ==
    \/ CheckState
    \/ ParseArgs
    \/ LaunchBrowser
    \/ CreateContext
    \/ SleepDelay

SpecStart == InitStart /\ [][NextStart]_vars

(* What the claim calls malformed parameters, read off argv.               *)

\* The part argv[i] plays: the value of the option before it, an option, or
\* a collection URL.
RECURSIVE ArgRole(_, _)
ArgRole(args, i) ==
    IF i > 1 /\ ArgRole(args, i - 1) = "option"
             /\ args[i - 1] \in {OptOut, OptDelayMin, OptDelayMax}
    THEN "value"
    ELSE IF startsWithDashes(args[i]) THEN "option" ELSE "url"

\* s is a non-negative integer written in decimal digits.
IsNonNegativeInteger(s) == Len(s) > 0 /\ \A k \in 1..Len(s) : s[k] \in DigitChars

DelayValueAt(args, i) ==
    /\ i > 1
    /\ ArgRole(args, i) = "value"
    /\ args[i - 1] \in {OptDelayMin, OptDelayMax}

\* The delay the last occurrence of opt gives, or dflt when there is none.
GivenDelay(args, opt, dflt) ==
    LET at == {i \in 2..Len(args) : DelayValueAt(args, i) /\ args[i - 1] = opt}
    IN  IF at = {} THEN dflt ELSE DecimalValue(args[MaxOf(at)])

Malformed(args) ==
    \/ \A i \in 1..Len(args) : ArgRole(args, i) # "url"
    \/ \E i \in 1..Len(args) :
         DelayValueAt(args, i) /\ ~IsNonNegativeInteger(args[i])
    \/ \E i \in 1..Len(args) :
         /\ ArgRole(args, i) = "option"
         /\ args[i] \notin {OptOut, OptDelayMin, OptDelayMax}
    \/ /\ \A i \in 1..Len(args) :
            DelayValueAt(args, i) => IsNonNegativeInteger(args[i])
       /\ GivenDelay(args, OptDelayMax, DEFAULT_DELAY_RANGE.max)
            < GivenDelay(args, OptDelayMin, DEFAULT_DELAY_RANGE.min)

\* C11: a missing session snapshot, and malformed parameters (no collection
\* URL, a negative or non-numeric delay, delay-max < delay-min, an unknown
\* option), each end the run with a non-zero exit status before a browser is
\* launched or a file is written.
C11_AsStated ==
    (startPc \in {"launch", "context", "running", "exited"}
       /\ (~stateFile \/ Malformed(argv)))
    => /\ startPc = "exited"
       /\ exitStatus > 0
       /\ ~launched
       /\ written = {}

\* Whatever ends the run in these lines ends it with status 1, with no
\* browser launched and no file written.
C11_ExitBeforeLaunch ==
    startPc = "exited" => exitStatus = 1 /\ ~launched /\ written = {}

\* Every cause the claim lists other than a delay with a numeric prefix
\* stops the run: past parseArgs the snapshot exists and each delay value
\* starts with the digits of a non-negative integer.
C11_PastParseArgs ==
    (startPc \in {"launch", "context", "running"} /\ Malformed(argv))
    => \E i \in 1..Len(argv) :
         /\ DelayValueAt(argv, i)
         /\ ~IsNonNegativeInteger(argv[i])
         /\ argv[i][1] \in DigitChars

----------------------------------------------------------------------------
(* The numeric parsers: parseFrenchNumber, parsePrice, parseArea.          *)
(*                                                                         *)
(* A number is a record [m, k] that stands for m / 10^k, with k the number *)
(* of decimals left once trailing zeros are dropped: 65.5 is [655, 1].     *)

MaxTextLen == 3         \* longest text given to the parsers, the examples apart

NBSP == "nbsp"          \* the one character U+00A0

Blank == {" ", NBSP}

RECURSIVE Pow10(_)
Pow10(k) == IF k = 0 THEN 1 ELSE 10 * Pow10(k - 1)

Dec(m, k) == [m |-> m, k |-> k]

\* The digits of s without its trailing zeros.
RECURSIVE DropTrailingZeros(_)
DropTrailingZeros(s) ==
    IF s # <<>> /\ s[Len(s)] = "0"
    THEN DropTrailingZeros(SubSeq(s, 1, Len(s) - 1))
    ELSE s

\* The number with the sign, the integer digits and the decimals given.
ToNumber(neg, int, frac) ==
    LET f   == DropTrailingZeros(frac)
        mag == DecimalValue(int \o f)
    IN  Dec(IF neg THEN 0 - mag ELSE mag, Len(f))

\* text.replace(/\u00a0/g, ' ')
replaceNbsp(s) == [i \in 1..Len(s) |-> IF s[i] = NBSP THEN " " ELSE s[i]]

\* .replace(/[^0-9,\.\-]/g, '')
stripNonNumeric(s) == SelectSeq(s, LAMBDA c : c \in DigitChars \cup {",", ".", "-"})

commasKept(s) == s

\* .replace(/,/g, '.')
commasToDots(s) == [i \in 1..Len(s) |-> IF s[i] = "," THEN "." ELSE s[i]]

\* Where /-?\d+(?:\.\d+)?/ matches first in s: at the first digit, or at the
\* "-" right before it.  0 when s has no digit.
matchStart(s) ==
    LET digits == {i \in 1..Len(s) : s[i] \in DigitChars}
        d      == MinOf(digits)
    IN  IF digits = {} THEN 0
        ELSE IF d > 1 /\ s[d - 1] = "-" THEN d - 1 ELSE d

\* parseFloat of the match that starts at `from`: the sign, the run of
\* digits, and the decimals when a "." and a digit follow.
matchValue(s, from) ==
    LET neg   == s[from] = "-"
        d     == IF neg THEN from + 1 ELSE from
        n     == DigitRun(s, d)
        dot   == d + n
        fr    == IF dot <= Len(s) /\ s[dot] = "." THEN DigitRun(s, dot + 1) ELSE 0
    IN  ToNumber(neg, SubSeq(s, d, d + n - 1), SubSeq(s, dot + 1, dot + fr))

\* A value of type string | null.
JsNull == [isNull |-> TRUE, chars |-> <<>>]

Str(s) == [isNull |-> FALSE, chars |-> s]

\* !text: null or the empty string.
Falsy(text) == text.isNull \/ text.chars = <<>>

parseFrenchNumber(text) ==
    IF Falsy(text) THEN Null
    ELSE LET normalized == commasToDots(stripNonNumeric(replaceNbsp(text.chars)))
             from       == matchStart(normalized)
         IN  IF from = 0 THEN Null ELSE matchValue(normalized, from)

\* Math.round: the nearest integer, a half going up.
MathRound(x) ==
    IF x.k = 0 THEN x
    ELSE Dec((2 * x.m + Pow10(x.k)) \div (2 * Pow10(x.k)), 0)

parsePrice(text) ==
    LET value == parseFrenchNumber(text)
    IN  IF value = Null THEN Null ELSE MathRound(value)

parseArea(text) == parseFrenchNumber(text)

TextChars == {"1", "5", "0", ",", ".", "-", " ", NBSP, "a"}

PriceExample == <<"4", "5", "0", " ", "0", "0", "0", " ", "€">>

AreaExample == <<"6", "5", ",", "5", " ", "m", "²">>

Texts == {JsNull, Str(PriceExample), Str(AreaExample)}
           \cup {Str(s) : s \in UNION {[1..n -> TextChars] : n \in 0..MaxTextLen}}

InitNum ==
    /\ entry = "parseFrenchNumber"
    /\ SchedIdle
    /\ DiscIdle
    /\ CflIdle
    /\ MainIdle
    /\ CanonIdle
    /\ StartIdle /\ ExtIdle /\ PauseIdle /\ FrameIdle /\ FailIdle /\ LoginIdle
    /\ nText \in Texts
    /\ nOut = Null

ApplyParsers ==
    /\ entry = "parseFrenchNumber" /\ nOut = Null
    /\ nOut' = [num   |-> parseFrenchNumber(nText),
                price |-> parsePrice(nText),
                area  |-> parseArea(nText)]
    /\ UNCHANGED <<entry, coreVars, nText, startVars, extVars, pauseVars, frameVars, failVars, login>>

NextNum == ApplyParsers

SpecNum == InitNum /\ [][NextNum]_vars

(* The reading the claim gives: the first numeric token of a text.         *)

\* The digits of s from position i on, blanks skipped, up to the first
\* character that is neither: <<the digits, the position of that character>>.
RECURSIVE ReadDigits(_, _, _)
ReadDigits(s, i, acc) ==
    IF i > Len(s) THEN <<acc, i>>
    ELSE IF s[i] \in DigitChars THEN ReadDigits(s, i + 1, Append(acc, s[i]))
    ELSE IF s[i] \in Blank THEN ReadDigits(s, i + 1, acc)
    ELSE <<acc, i>>

HasDigit(s) == \E i \in 1..Len(s) : s[i] \in DigitChars

\* The value of the first numeric token of s (s has a digit): it begins at
\* the first digit, a "-" right before it is its sign, blanks inside it are
\* ignored, and a comma or a dot followed by a digit starts its decimals.
FirstTokenValue(s) ==
    LET d    == MinOf({i \in 1..Len(s) : s[i] \in DigitChars})
        neg  == d > 1 /\ s[d - 1] = "-"
        int  == ReadDigits(s, d, <<>>)
        sep  == int[2]
        frac == IF sep < Len(s) /\ s[sep] \in {",", "."} /\ s[sep + 1] \in DigitChars
                THEN ReadDigits(s, sep + 1, <<>>)[1]
                ELSE <<>>
    IN  ToNumber(neg, int[1], frac)

\* x rounded to the nearest integer (a half goes up).
NearestInteger(x) ==
    LET p == Pow10(x.k)
        lo == x.m \div p
    IN  IF 2 * (x.m - lo * p) < p THEN Dec(lo, 0) ELSE Dec(lo + 1, 0)

Applied == entry = "parseFrenchNumber" /\ nOut # Null

\* C13 as stated: null for a null, empty or digit-free text, otherwise the
\* value of the first numeric token of the text; parsePrice rounds it and
\* parseArea returns it as it is.
C13_AsStated ==
    Applied =>
      IF nText.isNull THEN nOut.area = Null /\ nOut.price = Null
      ELSE IF ~HasDigit(nText.chars) THEN nOut.area = Null /\ nOut.price = Null
      ELSE /\ nOut.area = FirstTokenValue(nText.chars)
           /\ nOut.price = NearestInteger(FirstTokenValue(nText.chars))

\* What is left of a text once every character other than a digit, a comma,
\* a dot and a minus sign is removed.
NumericCharsOf(s) == SelectSeq(s, LAMBDA c : c \in DigitChars \cup {",", ".", "-"})

\* C13, amended: the parsers return null for a null, empty or digit-free
\* text, and otherwise read the first numeric token of what is left of the
\* text once every character other than a digit, a comma, a dot and a minus
\* sign is removed (digits that other characters separate run together);
\* parsePrice rounds to the nearest integer, parseArea does not round;
\* "450 000 €" gives 450000 and "65,5 m²" gives 65.5.
C13_NumericParsing ==
    Applied =>
      /\ nOut.num = nOut.area
      /\ IF nText.isNull THEN nOut.area = Null /\ nOut.price = Null
         ELSE IF ~HasDigit(nText.chars) THEN nOut.area = Null /\ nOut.price = Null
         ELSE /\ nOut.area = FirstTokenValue(NumericCharsOf(nText.chars))
              /\ nOut.price = NearestInteger(nOut.area)
      /\ nText = Str(PriceExample) => nOut.price = Dec(450000, 0)
      /\ nText = Str(AreaExample) => nOut.area = Dec(655, 1)
      /\ nText = JsNull => nOut.area = Null

\* Two digits with a letter between them have been read as one number.
C13_Witness ==
    /\ Applied
    /\ nText = Str(<<"1", "a", "5">>)
    /\ nOut.area = Dec(15, 0)
    /\ nOut.price = Dec(15, 0)

----------------------------------------------------------------------------
(* extractListing on one detail page.  The page is the set of markers it   *)
(* has: its container (main or #app) and, for each field, the element or   *)
(* text the field is read from.  page.goto may throw; a present element is *)
(* taken to give its text.                                                 *)

OptionalMarkers == {"h1", "price", "pricePerSqm", "area", "rooms", "bedrooms",
                    "floor", "address", "dpe", "ges", "features", "description",
                    "agency", "reference"}

Markers == {"container"} \cup OptionalMarkers

IsSpace(c) == c \in {" ", NBSP, "\n", "\t"}

\* input.replace(/\s+/g, ' ')
RECURSIVE collapseSpaces(_)
collapseSpaces(s) ==
    IF s = <<>> THEN <<>>
    ELSE IF IsSpace(s[1])
    THEN IF Len(s) > 1 /\ IsSpace(s[2]) THEN collapseSpaces(Tail(s))
         ELSE <<" ">> \o collapseSpaces(Tail(s))
    ELSE <<s[1]>> \o collapseSpaces(Tail(s))

\* .trim(), on a string whose white space is single spaces
trim(s) ==
    LET a == IF s # <<>> /\ s[1] = " " THEN 2 ELSE 1
        b == IF s # <<>> /\ s[Len(s)] = " " THEN Len(s) - 1 ELSE Len(s)
    IN  SubSeq(s, a, b)

\* cleanText with the trim left out.
cleanTextUntrimmed(input) ==
    IF Falsy(input) THEN JsNull
    ELSE LET normalized == collapseSpaces(input.chars)
         IN  IF Len(normalized) = 0 THEN JsNull ELSE Str(normalized)

cleanText(input) ==
    IF Falsy(input) THEN JsNull
    ELSE LET normalized == trim(collapseSpaces(input.chars))
         IN  IF Len(normalized) = 0 THEN JsNull ELSE Str(normalized)

\* The last run of digits of s instead of the first.
lastDigits(s) ==
    LET digits == {i \in 1..Len(s) : s[i] \in DigitChars}
        starts == {i \in digits : i = 1 \/ s[i - 1] \notin DigitChars}
        d      == MaxOf(starts)
    IN  IF digits = {} THEN JsNull ELSE Str(SubSeq(s, d, d + DigitRun(s, d) - 1))

\* The first run of digits of s, or null: url.match(/(\d+)(?:\.htm)?/)[1].
firstDigits(s) ==
    LET digits == {i \in 1..Len(s) : s[i] \in DigitChars}
        d      == MinOf(digits)
    IN  IF digits = {} THEN JsNull ELSE Str(SubSeq(s, d, d + DigitRun(s, d) - 1))

extractListingId(url) == firstDigits(url)

parseIntegerFromText(text) ==
    IF Falsy(text) THEN Null
    ELSE LET match == firstDigits(replaceNbsp(text.chars))
         IN  IF match.isNull THEN Null ELSE Dec(parseInt(match.chars).val, 0)

\* The text of the elements the model's pages have.
SampleText == <<"a", " ", " ", "b">>

PerSqmExample == <<"5", " ", "0", "0", "0", " ", "€", "/", "m", "²">>

RoomsExample == <<"3", " ", "p">>

\* locator.first().innerText().catch(() => null), then cleanText
textOrNull(present, text) == IF present THEN cleanText(Str(text)) ELSE JsNull

\* extractLabelValue: page.evaluate over the labels, then cleanText
extractLabelValue(present, text) == cleanText(IF present THEN Str(text) ELSE JsNull)

\* The price selectors end with 'text=/€/', which the price per square
\* metre matches as well; firstText takes the selectors in order.
priceText(page) ==
    IF "price" \in page THEN textOrNull(TRUE, PriceExample)
    ELSE IF "pricePerSqm" \in page THEN textOrNull(TRUE, PerSqmExample)
    ELSE JsNull

NullList == [isNull |-> TRUE, items |-> <<>>]

List(items) == [isNull |-> FALSE, items |-> items]

getSectionTextsNull(page) == NullList

\* getSectionTexts: the items of the first section that has some, else [].
getSectionTexts(page) ==
    IF "features" \in page THEN List(<<cleanText(Str(SampleText))>>) ELSE List(<<>>)

\* The record extractListing returns (lines 537-554).  The field names
\* stand for the keys of ListingRecord, in their order.
ListingRecord(page, url) ==
    [id          |-> extractListingId(url),
     url         |-> Str(url),
     title       |-> textOrNull("h1" \in page, SampleText),
     price       |-> parsePrice(priceText(page)),
     pricePerSqm |-> parsePrice(textOrNull("pricePerSqm" \in page, PerSqmExample)),
     area        |-> parseArea(textOrNull("area" \in page, AreaExample)),
     rooms       |-> parseIntegerFromText(textOrNull("rooms" \in page, RoomsExample)),
     bedrooms    |-> parseIntegerFromText(textOrNull("bedrooms" \in page, RoomsExample)),
     floor       |-> cleanText(extractLabelValue("floor" \in page, SampleText)),
     address     |-> cleanText(textOrNull("address" \in page, SampleText)),
     DPE         |-> textOrNull("dpe" \in page, <<"C">>),
     GES         |-> textOrNull("ges" \in page, <<"D">>),
     features    |-> getSectionTexts(page),
     description |-> textOrNull("description" \in page, SampleText),
     agency      |-> cleanText(textOrNull("agency" \in page, SampleText)),
     reference   |-> cleanText(extractLabelValue("reference" \in page, SampleText))]

Raised(why) == [raised |-> TRUE, why |-> why, record |-> Null]

Returned(rec) == [raised |-> FALSE, why |-> "", record |-> rec]

\* page.goto(url, ...) throws.
ExtractNavigationFails ==
    /\ entry = "extractListing" /\ xOut = Null
    /\ xOut' = Raised("goto")
    /\ UNCHANGED <<entry, coreVars, xPage, xUrl, startVars, numVars, pauseVars,
                   frameVars, failVars, login>>

\* page.goto succeeds: waitForSelector('main, #app') throws after 30 s when
\* the page has neither, otherwise the fields are read and the record returned.
ExtractListing ==
    /\ entry = "extractListing" /\ xOut = Null
    /\ xOut' = IF "container" \in xPage
               THEN Returned(ListingRecord(xPage, xUrl))
               ELSE Raised("waitForSelector")
    /\ UNCHANGED <<entry, coreVars, xPage, xUrl, startVars, numVars, pauseVars,
                   frameVars, failVars, login>>

DetailUrls == {<<"/", "a", "/", "1", "2">>, <<"/", "a">>, <<"/", "7", "a", "3">>}

InitExt ==
    /\ entry = "extractListing"
    /\ SchedIdle
    /\ DiscIdle
    /\ CflIdle
    /\ MainIdle
    /\ CanonIdle
    /\ StartIdle /\ NumIdle /\ PauseIdle /\ FrameIdle /\ FailIdle /\ LoginIdle
    /\ xPage \in SUBSET Markers
    /\ xUrl \in DetailUrls
    /\ xOut = Null

NextExt ==
    \/ ExtractNavigationFails
    \/ ExtractListing

SpecExt == InitExt /\ [][NextExt]_vars

Extracted == entry = "extractListing" /\ xOut # Null

\* The fields of a record other than id, url and the feature list are null.
ScalarFieldsNull(r) ==
    /\ r.title = JsNull /\ r.price = Null /\ r.pricePerSqm = Null
    /\ r.area = Null /\ r.rooms = Null /\ r.bedrooms = Null
    /\ r.floor = JsNull /\ r.address = JsNull /\ r.DPE = JsNull /\ r.GES = JsNull
    /\ r.description = JsNull /\ r.agency = JsNull /\ r.reference = JsNull

\* C12 as stated, for a page that loads and has its container: with every
\* optional marker missing, extractListing returns a record with identifier
\* and URL populated and every other field null.
C12_AsStated ==
    (Extracted /\ xOut.why # "goto" /\ "container" \in xPage
       /\ xPage \cap OptionalMarkers = {} /\ HasDigit(xUrl))
    => /\ ~xOut.raised
       /\ ~xOut.record.id.isNull
       /\ xOut.record.url = Str(xUrl)
       /\ ScalarFieldsNull(xOut.record)
       /\ xOut.record.features = NullList

\* C12, amended: on a page that loads and has its container (main or #app)
\* extractListing never raises, whichever field markers are missing; with
\* every optional marker missing the record has the URL, the identifier (the
\* first run of digits of the URL, null when it has none), an empty feature
\* list, and null in every other field.  It raises only when the navigation
\* fails or the container does not appear.
C12_NullSafety ==
    Extracted =>
      /\ xOut.raised <=> (xOut.why = "goto" \/ "container" \notin xPage)
      /\ ~xOut.raised =>
           /\ xOut.record.url = Str(xUrl)
           /\ xOut.record.id.isNull <=> ~HasDigit(xUrl)
           /\ xPage \cap OptionalMarkers = {} =>
                /\ ScalarFieldsNull(xOut.record)
                /\ xOut.record.features = List(<<>>)

\* A page with its container and nothing else has been extracted.
C12_Witness ==
    /\ Extracted
    /\ xPage = {"container"}
    /\ ~xOut.raised
    /\ xOut.record.id = Str(<<"1", "2">>)
    /\ xOut.record.features = List(<<>>)
    /\ ScalarFieldsNull(xOut.record)

----------------------------------------------------------------------------
(* A run of main during which the site answers with trigger responses (a   *)
(* 403 from consumer-portal/v1/favorites, or a URL of a challenge domain)  *)
(* and the human at the terminal gives a signal.  scrape-favorites.ts      *)
(* registers no response listener and never reads the terminal, so neither *)
(* changes anything the program holds: the two actions below only record   *)
(* what the environment did.  Trigger responses come while a page loads.   *)

MaxTriggers == 2        \* most trigger responses in a run

PageLoading ==
    \/ fpc = "goto"
    \/ \E w \in Workers : ppc = "running" /\ wpc[w] = "extracting"

\* A page of the context receives a trigger response.
TriggerResponse ==
    /\ entry = "main" /\ mpc # "exited"
    /\ PageLoading
    /\ signal = "none"
    /\ triggers < MaxTriggers
    /\ triggers' = triggers + 1
    /\ UNCHANGED <<entry, coreVars, signal, startVars, numVars, extVars, frameVars, failVars, login>>

\* The human types "continue" or "abort" after a trigger response.
HumanSignal ==
    /\ entry = "main" /\ mpc \notin {"idle", "exited"}
    /\ triggers > 0
    /\ signal = "none"
    /\ \E s \in {"continue", "abort"} : signal' = s
    /\ UNCHANGED <<entry, coreVars, triggers, startVars, numVars, extVars, frameVars, failVars, login>>

InitPause == InitMain

NextPause ==
    \/ NextMain
    \/ TriggerResponse
    \/ HumanSignal

SpecPause == InitPause /\ [][NextPause]_vars

\* A line of errors.log that records a pause episode ends with its outcome.
IsPauseEvent(line) == Len(line) > 0 /\ line[Len(line)] \in {"RESUMED", "ABORTED"}

\* The PauseEvents the run has recorded.
PauseEvents == SelectSeq(errorsLog, IsPauseEvent)

\* The episodes the trigger responses of the run open: the first opens one,
\* and the others, which come before any signal, fall into it.
EpisodesOpened == IF triggers > 0 THEN 1 ELSE 0

\* C14: a 403 from the monitored endpoint followed by an abort signal yields
\* exactly one PauseEvent, with outcome ABORTED, and a non-zero exit status.
C14_AbortedPause ==
    (mpc = "exited" /\ triggers > 0 /\ signal = "abort")
    => /\ Len(PauseEvents) = 1
       /\ PauseEvents[1][Len(PauseEvents[1])] = "ABORTED"
       /\ exitCode # 0

\* C15: trigger responses during an open episode open no second one, and at
\* the end of the run the PauseEvents recorded are as many as the episodes
\* opened.
C15_OneEpisode ==
    /\ Len(PauseEvents) <= EpisodesOpened
    /\ (mpc = "exited" /\ signal # "none") => Len(PauseEvents) = EpisodesOpened

\* C16: after a trigger response the pipeline takes no step until the human
\* signal arrives, and "continue" appends a PauseEvent with outcome RESUMED.
C16_SuspendsUntilSignal ==
    [][/\ (triggers > 0 /\ signal = "none") => UNCHANGED coreVars
       /\ (signal = "none" /\ signal' = "continue")
            => /\ Len(PauseEvents') = Len(PauseEvents) + 1
               /\ PauseEvents'[Len(PauseEvents')][Len(PauseEvents'[Len(PauseEvents')])]
                    = "RESUMED"]_vars

----------------------------------------------------------------------------
(* collectLinksInScope on a feed: a scope that shows a window of at most   *)
(* MaxListing listings and, when a reveal step loads one more, drops the   *)
(* oldest from the document and never shows it again.  A feed can go on    *)
(* for ever, so its listings are numbered from the oldest one still shown: *)
(* when the window moves, every listing is renumbered one down, and the    *)
(* reference of the listing that left is no longer kept in `collected` nor *)
(* counted in previousCount.  The loop compares the two sizes only with    *)
(* each other and looks up only references the scope shows, so what it     *)
(* does next is the same with and without that reference.                  *)

FeedWindow == {ListingUrl(k) : k \in 1..MaxListing}

ListingNumber(ref) == DigitValue(ref[2])

\* The running set after the window has moved by one listing.
Renumbered(set) ==
    LET kept == SelectSeq(set, LAMBDA r : ListingNumber(r) > 1)
    IN  [i \in 1..Len(kept) |-> ListingUrl(ListingNumber(kept[i]) - 1)]

CallFeed ==
    /\ entry = "feed" /\ lpc = "idle"
    /\ \E shown \in SUBSET FeedWindow : CLSEnter(shown)
    /\ UNCHANGED <<entry, schedVars, cflVars, mainVars, canonVars, auxVars>>

\* The reveal step leaves the window where it is: the scope comes to show
\* any of its listings.
FeedStays ==
    /\ \E shown \in SUBSET FeedWindow : RevealStep(shown)
    /\ UNCHANGED <<entry, schedVars, cflVars, mainVars, canonVars, auxVars>>

\* The reveal step loads one more listing and the window, all of which was
\* shown, moves: the loop condition as in RevealStep, and the renumbering.
FeedAdvance ==
    /\ lpc = "reveal"
    /\ scopeLinks = FeedWindow
    /\ collected' = Renumbered(collected)
    /\ previousCount' = Len(Renumbered(collected))
    /\ lpc' = IF idleIterations < maxIdleIterations THEN "scan" ELSE "done"
    /\ UNCHANGED <<idleIterations, scopeLinks, iterations, lastChange, noGrowth,
                   onlyAppeared, scanFailed>>
    /\ UNCHANGED <<entry, schedVars, cflVars, mainVars, canonVars, auxVars>>

InitFeed ==
    /\ entry = "feed"
    /\ SchedIdle
    /\ DiscIdle
    /\ CflIdle
    /\ MainIdle
    /\ CanonIdle
    /\ AuxIdle

NextFeed ==
    \/ CallFeed
    \/ Scan /\ UNCHANGED <<entry, schedVars, cflVars, mainVars, canonVars, auxVars>>
    \/ FeedStays
    \/ FeedAdvance

\* Every await of the loop resolves (each wait has a timeout), so the loop
\* goes on taking steps for as long as it has one to take.
SpecFeed == InitFeed /\ [][NextFeed]_vars /\ WF_vars(NextFeed)

\* C17 as stated: the loop terminates whatever the site does, a collection
\* that never stops revealing new items included.
C17_AsStated == <>(lpc = "done")

\* A scan that adds a reference to the running set.
GrowingScan == lpc = "scan" /\ lpc' = "reveal" /\ Len(collected') > Len(collected)

\* C17, amended: the loop terminates unless the scope goes on revealing new
\* references for ever.
C17_TerminatesUnlessRevealing == <>(lpc = "done") \/ []<><<GrowingScan>>_vars

\* The loop has returned from a scope that had revealed its listings.
C17_Witness ==
    /\ entry = "feed"
    /\ lpc = "done"
    /\ idleIterations = maxIdleIterations
    /\ Len(collected) = MaxListing

----------------------------------------------------------------------------
(* waitForFavoritesFrame and the choice of `scopes` in collectFavoriteLinks *)
(* for a page with 1..MaxFrames frames.  page.frames() returns the main    *)
(* frame first and the embedded frames after it.  A frame satisfies the    *)
(* predicate when its URL matches /mes-favoris|mes-recherches|favoris/i or *)
(* its document has a favorites marker (a frame whose evaluate throws does *)
(* not).  Which frames are attached and which satisfy the predicate is the *)
(* site's choice and may change between any two steps.                     *)

MaxPolls == 3           \* most passes over page.frames() before the 30 s have passed

\* The site: which of the n attached frames satisfy the predicate from now on.
SiteChanges(n) ==
    \E sat \in SUBSET (1..n) :
        /\ wfSat' = sat
        /\ wfSubMatched' = (wfSubMatched \/ \E f \in sat : f > 1)

\* while (Date.now() - start < timeoutMs): a pass over page.frames() begins.
PollBegin ==
    /\ entry = "waitForFavoritesFrame" /\ wfPc = "polling"
    /\ wfPolls < MaxPolls
    /\ \E n \in 1..MaxFrames : wfFrames' = n /\ SiteChanges(n)
    /\ wfIdx' = 1
    /\ wfPc' = "checking"
    /\ UNCHANGED <<entry, coreVars, wfPolls, wfResult, wfScopes,
                   startVars, numVars, extVars, pauseVars, failVars, login>>

\* The body of the for loop for one frame: return it when it satisfies the
\* predicate; after the last frame, sleep(500).  With the frame returned,
\* collectFavoriteLinks sets scopes = [favoritesFrame].
CheckFrame ==
    /\ entry = "waitForFavoritesFrame" /\ wfPc = "checking"
    /\ IF wfIdx \in wfSat
       THEN /\ wfResult' = wfIdx
            /\ wfScopes' = <<[frame |-> wfIdx]>>
            /\ wfPc' = "returned"
            /\ UNCHANGED <<wfIdx, wfPolls, wfSat, wfSubMatched>>
       ELSE IF wfIdx < wfFrames
       THEN /\ wfIdx' = wfIdx + 1
            /\ SiteChanges(wfFrames)
            /\ UNCHANGED <<wfResult, wfScopes, wfPc, wfPolls>>
       ELSE /\ wfPolls' = wfPolls + 1
            /\ wfPc' = "polling"
            /\ SiteChanges(wfFrames)
            /\ UNCHANGED <<wfIdx, wfResult, wfScopes>>
    /\ UNCHANGED <<entry, coreVars, wfFrames, startVars, numVars, extVars, pauseVars, failVars, login>>

\* The 30 s have passed: waitForFavoritesFrame returns null and
\* collectFavoriteLinks sets scopes = [page].
PollTimeout ==
    /\ entry = "waitForFavoritesFrame" /\ wfPc = "polling"
    /\ wfPolls >= 1
    /\ wfResult' = 0
    /\ wfScopes' = <<[page |-> TRUE]>>
    /\ wfPc' = "returned"
    /\ UNCHANGED <<entry, coreVars, wfFrames, wfIdx, wfSat, wfPolls, wfSubMatched,
                   startVars, numVars, extVars, pauseVars, failVars, login>>

InitFrame ==
    /\ entry = "waitForFavoritesFrame"
    /\ SchedIdle
    /\ DiscIdle
    /\ CflIdle
    /\ MainIdle
    /\ CanonIdle
    /\ StartIdle /\ NumIdle /\ ExtIdle /\ PauseIdle /\ FailIdle /\ LoginIdle
    /\ wfPc = "polling"
    /\ wfFrames = 0
    /\ wfIdx = 0
    /\ wfSat = {}
    /\ wfPolls = 0
    /\ wfSubMatched = FALSE
    /\ wfResult = 0
    /\ wfScopes = <<>>

NextFrame ==
    \/ PollBegin
    \/ CheckFrame
    \/ PollTimeout

SpecFrame == InitFrame /\ [][NextFrame]_vars

\* The scope is the top-level document: the page, or its main frame.
TopLevelSelected == wfResult \in {0, 1}

\* C18: exactly one scope is selected: an embedded sub-document that
\* satisfies the predicate whenever one does during the polling window, and
\* the top-level document only when none did.
C18_AsStated ==
    wfPc = "returned" =>
      /\ Len(wfScopes) = 1
      /\ wfSubMatched => ~TopLevelSelected
      /\ TopLevelSelected => ~wfSubMatched

\* What the code does select: exactly one scope, the first frame in the
\* order of page.frames(), the main frame included, that satisfies the
\* predicate when the loop is at it; the page when the time runs out.
C18_FirstSatisfyingFrame ==
    [][wfPc' = "returned" /\ wfPc # "returned" =>
         /\ Len(wfScopes') = 1
         /\ \/ wfPc = "checking" /\ wfIdx \in wfSat /\ wfResult' = wfIdx
            \/ wfPc = "polling" /\ wfResult' = 0]_vars

----------------------------------------------------------------------------
(* The fallback of collectFavoriteLinks, in the whole run.                 *)

\* collectFavoriteLinks leaves the primary pass in this step.
LeavesPrimary == fpc = "primary" /\ fpc' # "primary"

\* A scan of the fallback loop starts in this step.
FallbackScanStarts == fpc' = "fallback" /\ lpc = "done" /\ lpc' # "done"

\* C19: the frames of the page are scanned again if and only if the primary
\* pass gave no reference and no scope was detected; a detected scope that
\* gives no reference makes the result the empty set with no second scan;
\* in the fallback the frames are scanned one after the other, each one
\* once, each scan starting from an empty set and zeroed counters, and
\* collectFavoriteLinks returns only after the last of them.
C19_FallbackRescan ==
    [][/\ LeavesPrimary =>
            /\ fpc' \in {"fallback", "idle"}
            /\ fpc' = "fallback" <=> (Len(collected) = 0 /\ ~favoritesFrame)
       /\ (LeavesPrimary /\ favoritesFrame /\ Len(collected) = 0) =>
            /\ fpc' = "idle"
            /\ perUrl'[urlIdx] = {}
       /\ FallbackScanStarts =>
            /\ fIdx' = (IF fpc = "primary" THEN 1 ELSE fIdx + 1)
            /\ fIdx' <= fFrames'
            /\ collected' = <<>>
            /\ previousCount' = 0
            /\ idleIterations' = 0
       /\ (fpc = "fallback" /\ fpc' = "fallback") =>
            /\ fFrames' = fFrames
            /\ fIdx' # fIdx => FallbackScanStarts
       /\ (fpc = "fallback" /\ fpc' # "fallback") =>
            /\ fIdx = fFrames
            /\ lpc = "done"]_vars

\* The fallback has scanned the last of two frames, the second of which
\* gave a reference.
C19_Witness ==
    /\ fpc = "fallback" /\ lpc = "done"
    /\ fFrames = 2 /\ fIdx = 2
    /\ fCollected = <<>>
    /\ Len(collected) > 0
    /\ ~favoritesFrame

----------------------------------------------------------------------------
(* collectLinksInScope on a scope whose queries can fail: the evaluation   *)
(* of gatherListingLinks, the search for the reveal control, the click and *)
(* the scroll.                                                             *)

\* The promise awaited with the catch left out.
catchUndefinedMissing(ok) == IF ok THEN "resolved" ELSE "rejected"

\* promise.catch(() => undefined): the awaited promise resolves whether
\* the operation succeeded or not.
catchUndefined(ok) == "resolved"

\* firstVisible: a control is visible, none is, or locator.isVisible throws
\* for every selector (caught, `continue`), which gives null as well.
Located == {"visible", "none", "throws"}

CallOnFailingScope ==
    /\ entry = "failures" /\ lpc = "idle"
    /\ \E shown \in SUBSET ScopePool : CLSEnter(shown)
    /\ UNCHANGED <<entry, schedVars, cflVars, mainVars, canonVars, auxVars>>

\* gatherListingLinks returns the hrefs of the scope.
ScanSucceeds ==
    /\ entry = "failures"
    /\ ScanWith(TRUE)
    /\ failedRun' = 0
    /\ everSucceeded' = TRUE
    /\ seen' = seen \cup Canon(scopeLinks)
    /\ UNCHANGED <<entry, schedVars, cflVars, mainVars, canonVars, lastReveal,
                   startVars, numVars, extVars, pauseVars, frameVars, login>>

\* scope.evaluate throws in gatherListingLinks.
ScanFails ==
    /\ entry = "failures"
    /\ ScanWith(FALSE)
    /\ failedRun' = failedRun + 1
    /\ UNCHANGED <<entry, schedVars, cflVars, mainVars, canonVars, seen,
                   everSucceeded,
                   lastReveal, startVars, numVars, extVars, pauseVars, frameVars, login>>

\* The actions of the reveal step with the `continue` left out.
revealActionsFallThrough(located) ==
    IF located = "visible" THEN <<"click", "scroll">> ELSE <<"scroll">>

\* if (loadMoreButton) { click ..; continue; }  scroll ..: the actions of
\* the reveal step of one iteration.
revealActions(located) ==
    IF located = "visible" THEN <<"click">> ELSE <<"scroll">>

\* The reveal action of one iteration: firstVisible gave `located`, and the
\* click (a control is visible) or the scroll (none is) succeeded or not.
RevealTracked(located, ok) ==
    /\ entry = "failures" /\ lpc = "reveal"
    /\ lastReveal' = [located |-> located, actions |-> revealActions(located),
                      ok |-> ok]
    /\ IF catchUndefined(ok) = "rejected"
       THEN /\ lpc' = "raised"
            /\ UNCHANGED <<collected, previousCount, idleIterations, scopeLinks,
                           iterations, lastChange, noGrowth, onlyAppeared,
                           scanFailed>>
       ELSE \E shown \in SUBSET ScopePool : RevealStep(shown)
    /\ UNCHANGED <<entry, schedVars, cflVars, mainVars, canonVars, failedRun,
                   everSucceeded, seen, startVars, numVars, extVars, pauseVars,
                   frameVars, login>>

\* if (loadMoreButton) { await loadMoreButton.click().catch(..); .. continue; }
ClickTracked == \E ok \in BOOLEAN : RevealTracked("visible", ok)

\* await scope.evaluate(.. scrollTo ..).catch(..); ..
ScrollTracked ==
    \E located \in Located \ {"visible"} : \E ok \in BOOLEAN :
        RevealTracked(located, ok)

InitFail ==
    /\ entry = "failures"
    /\ SchedIdle
    /\ DiscIdle
    /\ CflIdle
    /\ MainIdle
    /\ CanonIdle
    /\ AuxIdle

NextFail ==
    \/ CallOnFailingScope
    \/ ScanSucceeds
    \/ ScanFails
    \/ ClickTracked
    \/ ScrollTracked

SpecFail == InitFail /\ [][NextFail]_vars

\* This step is a scan that failed.
FailingScanStep == failedRun' = failedRun + 1

\* This step is a reveal action in which the search for the control, the
\* click or the scroll failed.
FailingRevealStep ==
    /\ lpc = "reveal" /\ lpc' # "reveal"
    /\ ~lastReveal'.ok \/ lastReveal'.located = "throws"

\* C20: no failure of a query aborts collectLinksInScope or removes a
\* reference from the running set; a failing scan leaves the set as it is
\* and adds 1 to the idle counter, a failing reveal action changes neither;
\* after 6 failing scans in a row the loop ends, and a loop whose every scan
\* failed ends after exactly 6 iterations, with the (empty) set gathered.
C20_FailuresSwallowed ==
    /\ [](/\ lpc # "raised"
          /\ failedRun <= idleIterations
          /\ lpc = "scan" => failedRun < maxIdleIterations
          /\ (lpc = "done" /\ ~everSucceeded) =>
                /\ failedRun = maxIdleIterations
                /\ collected = <<>>)
    /\ [][/\ lpc # "idle" => Range(collected) \subseteq Range(collected')
          /\ FailingScanStep =>
                /\ collected' = collected
                /\ idleIterations' = idleIterations + 1
          /\ FailingRevealStep =>
                /\ collected' = collected
                /\ idleIterations' = idleIterations
                /\ lpc' = (IF idleIterations < maxIdleIterations
                           THEN "scan" ELSE "done")]_vars

\* The loop has ended with the references it had gathered before its last
\* 6 scans failed in a row, the last scroll having failed too.
C20_Witness ==
    /\ entry = "failures" /\ lpc = "done"
    /\ failedRun = maxIdleIterations
    /\ everSucceeded
    /\ Len(collected) > 0
    /\ lastReveal.located = "throws" /\ ~lastReveal.ok

----------------------------------------------------------------------------
(* Pages, in the whole run.                                                *)

\* The positions at which a worker holds the page of its current reference.
HoldsPage(w) == wpc[w] \in {"sleep", "extracting", "logging", "closing"}

\* C21: a worker has a page open only while it handles its current
\* reference (the page is closed, after a success and after a failure alike,
\* before the next reference is taken); the collection page is open only
\* while collectFavoriteLinks runs, whether it returns or throws; and no
\* detail page is open once processListings has returned.
C21_PagesClosed ==
    /\ \A w \in Workers : w \in openPages <=> HoldsPage(w)
    /\ colPageOpen <=> (mpc = "inCFL")
    /\ ppc = "returned" => openPages = {}
    /\ mpc = "exited" => (openPages = {} /\ ~colPageOpen)

\* processListings has returned after a success and a failure, in a run
\* whose collection pages have all been closed.
C21_Witness ==
    /\ entry = "main" /\ ppc = "returned"
    /\ failedIdx # {}
    /\ Len(returned) > 0
    /\ openPages = {}
    /\ ~colPageOpen

----------------------------------------------------------------------------
(* The order of a worker's steps.                                          *)

\* C22 as stated: the worker sleeps before it opens the page, so a sleeping
\* worker has no page open yet.
C22_AsStated == \A w \in Workers : wpc[w] = "sleep" => w \notin openPages

\* The positions a worker can go to from position p.
WorkerSuccessors(p) ==
    CASE p = "unused"     -> {"newPage", "done"}
      [] p = "newPage"    -> {"sleep"}
      [] p = "sleep"      -> {"extracting"}
      [] p = "extracting" -> {"closing", "logging"}
      [] p = "logging"    -> {"closing"}
      [] p = "closing"    -> {"newPage", "done"}
      [] OTHER            -> {}

\* C22: for each reference a worker opens the page, then sleeps one
\* politeness delay, then invokes the extractor, then (after logging a
\* failure) closes the page; extractListing, and with it the navigation, is
\* entered only from the sleep of the same reference, with the page open.
C22_WorkerOrder ==
    [][ppc = "running" =>
         \A w \in Workers :
            /\ wpc'[w] # wpc[w] => wpc'[w] \in WorkerSuccessors(wpc[w])
            /\ (wcur'[w] # wcur[w] \/ wpc'[w] # wpc[w]) =>
                  \A v \in Workers \ {w} : wpc'[v] = wpc[v] /\ wcur'[v] = wcur[v]
            /\ wcur'[w] # wcur[w] => wpc[w] = "closing"
            /\ (wpc[w] = "newPage" /\ wpc'[w] = "sleep") =>
                  (w \notin openPages /\ w \in openPages')
            /\ (wpc[w] = "sleep" /\ wpc'[w] = "extracting") =>
                  /\ w \in openPages
                  /\ invoked'[wcur[w] + 1] = invoked[wcur[w] + 1] + 1
            /\ (wpc'[w] = wpc[w] /\ wcur'[w] = wcur[w]) =>
                  \A i \in 1..Len(tasks) :
                     (i = wcur[w] + 1 /\ wpc[w] # "unused")
                        => invoked'[i] = invoked[i]]_vars

\* A worker is extracting its second reference, after the sleep of that
\* reference, with the page open.
C22_Witness ==
    \E w \in Workers :
        /\ wpc[w] = "extracting"
        /\ wcur[w] >= CONCURRENCY_LIMIT
        /\ w \in openPages
        /\ invoked[wcur[w] + 1] = 1

----------------------------------------------------------------------------
(* The delay range and the delays slept.                                   *)

PastParseArgs == startPc \in {"launch", "context", "running"}

NoDelayOption == \A i \in 1..Len(argv) : argv[i] \notin {OptDelayMin, OptDelayMax}

\* C23: past parseArgs the delay range has 0 <= min <= max, and it is
\* 1000..2000 when argv has no delay option; every delay slept is an integer
\* between min and max, and it is min when max = min.
C23_DelayRange ==
    PastParseArgs =>
      LET range == options.delayRange IN
      /\ range.min \in Nat /\ range.max \in Nat
      /\ range.min <= range.max
      /\ NoDelayOption => range = DEFAULT_DELAY_RANGE
      /\ slept # -1 =>
            /\ slept \in Nat
            /\ range.min <= slept /\ slept <= range.max
            /\ range.max = range.min => slept = range.min

\* With --delay-min 5 the greatest draw has given a delay of 2000 ms.
C23_Witness ==
    /\ startPc = "running"
    /\ options.delayRange = [min |-> 5, max |-> DEFAULT_DELAY_RANGE.max]
    /\ slept = DEFAULT_DELAY_RANGE.max

----------------------------------------------------------------------------
(* The phases of a run.                                                    *)

\* C24 as stated, for the writer: every run that ends has invoked it once.
C24_AsStated == mpc = "exited" => Len(outputs) = 1

\* The records of the references whose extraction succeeded, in the order
\* of the references.
SucceededRecords ==
    LET ok == SelectSeq([i \in 1..Len(tasks) |-> i], LAMBDA i : i \notin failedIdx)
    IN  [k \in 1..Len(ok) |-> Record(tasks[ok[k]])]

Discovering == mpc = "inCFL" \/ fpc # "idle" \/ lpc # "idle" \/ colPageOpen

Extracting == ppc = "running" \/ openPages # {}

\* C24: the collection URLs are visited one at a time in input order, no
\* detail page is opened and no worker runs before the last of them has
\* been left, and the writer is invoked at most once, after processListings
\* has returned with every worker finished, with exactly the records of the
\* references whose extraction succeeded: once in a run in which every
\* collection page loads, never in a run in which one does not.
C24_Phases ==
    /\ mpc \in {"loop", "inCFL"} =>
          /\ urlIdx \in 1..(nUrls + 1)
          /\ \A c \in 1..nUrls : c >= urlIdx => perUrl[c] = {}
          /\ mpc = "inCFL" => urlIdx <= nUrls
    /\ Discovering => (mpc = "inCFL" /\ ~Extracting /\ ppc = "idle")
    /\ Extracting => (mpc = "extract" /\ urlIdx > nUrls /\ navFailed = 0)
    /\ Len(outputs) <= 1
    /\ outputs # <<>> =>
          /\ mpc = "exited" /\ ppc = "returned" /\ AllWorkersDone
          /\ outputs[1] = SucceededRecords
    /\ mpc = "exited" => (Len(outputs) = 1 <=> navFailed = 0)

\* A run over two collection URLs has ended with the writer invoked once,
\* with a record, one extraction having failed.
C24_Witness ==
    /\ mpc = "exited" /\ nUrls = 2
    /\ Len(outputs) = 1
    /\ Len(outputs[1]) > 0
    /\ failedIdx # {}

----------------------------------------------------------------------------
(* The steps of one reveal loop.                                           *)

\* C25: the loop alternates between a scan and a reveal step, one at a
\* time; the reveal step of an iteration takes exactly one action, the
\* click when a reveal-more control is visible and the scroll when none is;
\* the scan changes nothing of the scope and the reveal step nothing of the
\* running set.
C25_OneRevealAction ==
    [][/\ lpc = "scan" =>
            /\ lpc' \in {"scan", "reveal"}
            /\ lastReveal' = lastReveal
            /\ scopeLinks' = scopeLinks
       /\ lpc = "reveal" =>
            /\ lpc' \in {"reveal", "scan", "done"}
            /\ collected' = collected
            /\ lpc' # "reveal" =>
                 /\ Len(lastReveal'.actions) = 1
                 /\ lastReveal'.actions[1] = "click"
                       <=> lastReveal'.located = "visible"
                 /\ lastReveal'.actions[1] = "scroll"
                       <=> lastReveal'.located \in {"none", "throws"}
       /\ lastReveal' # lastReveal => lpc = "reveal"
       /\ lpc = "done" => lpc' = "done"]_vars

\* The loop has ended after an iteration that clicked a visible control,
\* with a reference gathered.
C25_Witness ==
    /\ entry = "failures" /\ lpc = "done"
    /\ lastReveal.located = "visible"
    /\ lastReveal.actions = <<"click">>
    /\ Len(collected) > 0

----------------------------------------------------------------------------
(* The identifier of a record.                                             *)

\* s[a..b] is the first run of digits of s.
IsFirstRunOfDigits(s, a, b) ==
    /\ a <= b
    /\ \A k \in a..b : s[k] \in DigitChars
    /\ \A k \in 1..(a - 1) : s[k] \notin DigitChars
    /\ b = Len(s) \/ s[b + 1] \notin DigitChars

\* C26: the identifier of a returned record is the first run of digits of
\* the URL, null when the URL has no digit; it is the identifier of the
\* record of any other page with the same URL (here the page with nothing
\* but its container and the page with every marker).
C26_IdentifierFromUrl ==
    (Extracted /\ ~xOut.raised) =>
      LET id == xOut.record.id IN
      /\ id.isNull <=> ~HasDigit(xUrl)
      /\ ~id.isNull =>
            \E a, b \in 1..Len(xUrl) :
               IsFirstRunOfDigits(xUrl, a, b) /\ id.chars = SubSeq(xUrl, a, b)
      /\ id = ListingRecord({"container"}, xUrl).id
      /\ id = ListingRecord(Markers, xUrl).id

\* A page with every marker, at a URL with two runs of digits, has been
\* extracted: the identifier is the first run.
C26_Witness ==
    /\ Extracted /\ ~xOut.raised
    /\ xPage = Markers
    /\ xUrl = <<"/", "7", "a", "3">>
    /\ xOut.record.id = Str(<<"7">>)

----------------------------------------------------------------------------
(* cleanText, and the text fields of a record, for every text of at most   *)
(* MaxTextLen characters (and SampleText) and for null.                    *)

CleanChars == {"a", " ", NBSP, "\n"}

RawTexts == {JsNull, Str(SampleText)}
              \cup {Str(s) : s \in UNION {[1..n -> CleanChars] : n \in 0..MaxTextLen}}

\* items.map((item) => cleanText(item)).filter(Boolean), then
\* featuresRaw.map((item) => item ?? '').filter((item) => item.length > 0)
cleanItems(items) ==
    SelectSeq([i \in 1..Len(items) |-> cleanText(items[i])],
              LAMBDA item : ~Falsy(item))

\* The text fields of the record extractListing returns for a page whose
\* every text element reads `raw` (null: the element is missing).
TextFields(raw) ==
    LET present == ~raw.isNull
        text    == raw.chars
    IN  [title       |-> textOrNull(present, text),
         floor       |-> cleanText(extractLabelValue(present, text)),
         address     |-> cleanText(textOrNull(present, text)),
         features    |-> List(IF present THEN cleanItems(<<raw, raw>>) ELSE <<>>),
         description |-> cleanText(raw),
         agency      |-> cleanText(textOrNull(present, text)),
         reference   |-> cleanText(extractLabelValue(present, text))]

ApplyCleanText ==
    /\ entry = "cleanText" /\ nOut = Null
    /\ nOut' = [once   |-> cleanText(nText),
                twice  |-> cleanText(cleanText(nText)),
                fields |-> TextFields(nText)]
    /\ UNCHANGED <<entry, coreVars, nText, startVars, extVars, pauseVars, frameVars,
                   failVars, login>>

InitClean ==
    /\ entry = "cleanText"
    /\ SchedIdle
    /\ DiscIdle
    /\ CflIdle
    /\ MainIdle
    /\ CanonIdle
    /\ StartIdle /\ ExtIdle /\ PauseIdle /\ FrameIdle /\ FailIdle /\ LoginIdle
    /\ nText \in RawTexts
    /\ nOut = Null

NextClean == ApplyCleanText

SpecClean == InitClean /\ [][NextClean]_vars

\* The words of s: its maximal runs of characters that are not white space.
RECURSIVE Words(_, _, _)
Words(s, i, word) ==
    IF i > Len(s) THEN (IF word = <<>> THEN <<>> ELSE <<word>>)
    ELSE IF IsSpace(s[i])
    THEN (IF word = <<>> THEN <<>> ELSE <<word>>) \o Words(s, i + 1, <<>>)
    ELSE Words(s, i + 1, Append(word, s[i]))

\* s is not empty, has no white space at either end, and no white space
\* other than single spaces.
Normalized(s) ==
    /\ s # <<>>
    /\ ~IsSpace(s[1]) /\ ~IsSpace(s[Len(s)])
    /\ \A i \in 1..Len(s) : IsSpace(s[i]) => s[i] = " "
    /\ \A i \in 1..(Len(s) - 1) : ~(IsSpace(s[i]) /\ IsSpace(s[i + 1]))

\* C27: cleanText gives null for null and for a text without a word, and
\* otherwise the words of the text, in order, one space between two of
\* them; applying it twice gives what applying it once gives; and no text
\* field of a record is empty, begins or ends with white space, or has two
\* white-space characters in a row.
C27_CleanText ==
    nOut # Null =>
      LET words == IF nText.isNull THEN <<>> ELSE Words(nText.chars, 1, <<>>) IN
      /\ nOut.once.isNull <=> words = <<>>
      /\ ~nOut.once.isNull =>
            /\ Normalized(nOut.once.chars)
            /\ Words(nOut.once.chars, 1, <<>>) = words
      /\ nOut.twice = nOut.once
      /\ \A f \in {"title", "floor", "address", "description", "agency",
                   "reference"} : nOut.fields[f] = nOut.once
      /\ ~nOut.fields.features.isNull
      /\ \A i \in 1..Len(nOut.fields.features.items) :
            /\ ~nOut.fields.features.items[i].isNull
            /\ Normalized(nOut.fields.features.items[i].chars)

\* cleanText has been applied to "a  b" and has given "a b".
C27_Witness ==
    /\ entry = "cleanText"
    /\ nText = Str(SampleText)
    /\ nOut # Null
    /\ nOut.once = Str(<<"a", " ", "b">>)
    /\ nOut.fields.title = Str(<<"a", " ", "b">>)
    /\ Len(nOut.fields.features.items) = 2

----------------------------------------------------------------------------
(* login-once.ts: main, for every argv of at most MaxArgs tokens, with and *)
(* without a display.  The human (the sign-in, the two Enter keys) and the *)
(* browser (launch, navigations, the write of the snapshot) are the        *)
(* environment.                                                            *)

OptValidateAuth ==
    <<"-", "-", "v", "a", "l", "i", "d", "a", "t", "e", "-", "a", "u", "t", "h">>

OptFavorites == <<"-", "-", "f", "a", "v", "o", "r", "i", "t", "e", "s">>

OptWait == <<"-", "-", "w", "a", "i", "t">>

LoginTokens == {OptValidateAuth, OptFavorites, OptWait, OptOut, <<"u">>, <<"5">>,
                <<"-", "1">>}

\* 'https://www.seloger.com/mes-recherches/favoris' and 60
LoginDefaults == [validateAuth |-> FALSE, favoritesUrl |-> <<"f">>, waitSeconds |-> 60]

\* The loop of parseArgs of login-once.ts from index i (1-based here).
RECURSIVE loginParseArgsFrom(_, _, _)
loginParseArgsFrom(args, i, st) ==
    IF i > Len(args) THEN st
    ELSE
    LET arg  == args[i]
        next == ArgAt(args, i + 1)
        n    == parseInt(next)
    IN  IF arg = OptValidateAuth
        THEN loginParseArgsFrom(args, i + 1, [st EXCEPT !.validateAuth = TRUE])
        ELSE IF arg = OptFavorites
        THEN IF next = <<>> THEN ArgError("--favorites requires a URL")
             ELSE loginParseArgsFrom(args, i + 2, [st EXCEPT !.favoritesUrl = next])
        ELSE IF arg = OptWait
        THEN IF next = <<>> THEN ArgError("--wait requires seconds")
             ELSE IF n.nan \/ n.val <= 0
             THEN ArgError("--wait must be a positive integer")
             ELSE loginParseArgsFrom(args, i + 2, [st EXCEPT !.waitSeconds = n.val])
        ELSE IF startsWithDashes(arg)
        THEN ArgError("Unknown option")
        ELSE loginParseArgsFrom(args, i + 1, st)

loginParseArgs(args) == loginParseArgsFrom(args, 1, LoginDefaults)

\* The catch block with process.exitCode left as it is.
LoginCatchSilently(why) ==
    login' = [login EXCEPT !.failed = why, !.pc = "finally"]

\* catch (error) { console.error(..); process.exitCode = 1; }
LoginCatch(why) ==
    login' = [login EXCEPT !.failed = why, !.exitCode = 1, !.pc = "finally"]

LoginUnchanged == UNCHANGED <<entry, coreVars, startVars, numVars, extVars,
                              pauseVars, frameVars, failVars>>

\* parseArgs(process.argv.slice(2)), then the check for a display, which
\* ends the process at once.
LoginParseArgs ==
    /\ login.pc = "start"
    /\ LET r == loginParseArgs(login.argv)
       IN  IF IsArgError(r) THEN LoginCatch("args")
           ELSE IF ~login.display
           THEN login' = [login EXCEPT !.options = r, !.pc = "exited", !.status = 1]
           ELSE login' = [login EXCEPT !.options = r, !.pc = "launch"]
    /\ LoginUnchanged

\* chromium.launch, browser.newContext, context.newPage
LoginLaunch ==
    /\ login.pc = "launch"
    /\ \E ok \in BOOLEAN :
         IF ok THEN login' = [login EXCEPT !.pc = "gotoHome"]
         ELSE LoginCatch("launch")
    /\ LoginUnchanged

\* page.goto('https://www.seloger.com/'), then the branch on validateAuth.
LoginGotoHome ==
    /\ login.pc = "gotoHome"
    /\ \E ok \in BOOLEAN :
         IF ok
         THEN login' = [login EXCEPT !.pc = IF login.options.validateAuth
                                            THEN "ack1" ELSE "waiting"]
         ELSE LoginCatch("navigation")
    /\ LoginUnchanged

\* await page.waitForTimeout(options.waitSeconds * 1000) resolves.
LoginWaitElapsed ==
    /\ login.pc = "waiting"
    /\ login' = [login EXCEPT !.waited = TRUE, !.pc = "save"]
    /\ LoginUnchanged

\* The human presses Enter: the promise of rl.question resolves.
LoginAck ==
    /\ login.pc \in {"ack1", "ack2"}
    /\ login' = [login EXCEPT !.acks = @ + 1,
                              !.pc = IF login.pc = "ack1" THEN "gotoFavorites"
                                     ELSE "save"]
    /\ LoginUnchanged

\* page.on('response', ..), then page.goto(options.favoritesUrl).
LoginGotoFavorites ==
    /\ login.pc = "gotoFavorites"
    /\ \E ok \in BOOLEAN :
         IF ok THEN login' = [login EXCEPT !.pc = "ack2"]
         ELSE LoginCatch("navigation")
    /\ LoginUnchanged

\* await saveStorageState(..); console.log('STATE_SAVED: ..'); then return
\* (default mode) or the end of the try block.
LoginSave ==
    /\ login.pc = "save"
    /\ \E ok \in BOOLEAN :
         IF ok
         THEN login' = [login EXCEPT !.snapshot = @ + 1,
                                     !.printed = Append(@, "STATE_SAVED"),
                                     !.pc = "finally"]
         ELSE LoginCatch("write")
    /\ LoginUnchanged

\* finally: the context and the browser are closed; the process ends with
\* process.exitCode.
LoginFinally ==
    /\ login.pc = "finally"
    /\ login' = [login EXCEPT !.pc = "exited", !.status = login.exitCode]
    /\ LoginUnchanged

InitLogin ==
    /\ entry = "login-once"
    /\ SchedIdle
    /\ DiscIdle
    /\ CflIdle
    /\ MainIdle
    /\ CanonIdle
    /\ StartIdle /\ NumIdle /\ ExtIdle /\ PauseIdle /\ FrameIdle /\ FailIdle
    /\ \E args \in UNION {[1..n -> LoginTokens] : n \in 0..MaxArgs} :
       \E display \in BOOLEAN :
          login = [pc |-> "start", argv |-> args, display |-> display,
                   options |-> Null, acks |-> 0, waited |-> FALSE,
                   snapshot |-> 0, printed |-> <<>>,
                   failed |-> "none", exitCode |-> 0, status |-> -1]

NextLogin ==
    \/ LoginParseArgs
    \/ LoginLaunch
    \/ LoginGotoHome
    \/ LoginWaitElapsed
    \/ LoginAck
    \/ LoginGotoFavorites
    \/ LoginSave
    \/ LoginFinally

SpecLogin == InitLogin /\ [][NextLogin]_vars

\* C28: the snapshot is written at most once, after the wait has elapsed
\* (default mode) or after both Enter keys (--validate-auth); STATE_SAVED
\* is printed only once a write has completed; and after a failed
\* navigation or a failed write STATE_SAVED is never printed and the exit
\* status is not zero.
C28_SnapshotOnce ==
    /\ login.snapshot <= 1
    /\ login.snapshot > 0 =>
          /\ login.options # Null
          /\ IF login.options.validateAuth THEN login.acks = 2 /\ ~login.waited
             ELSE login.waited /\ login.acks = 0
    /\ Len(login.printed) <= login.snapshot
    /\ login.failed \in {"navigation", "write"} =>
          /\ login.printed = <<>>
          /\ login.snapshot = 0
          /\ login.pc = "exited" => login.status > 0

\* A run with --validate-auth has ended: both Enter keys, one write, the
\* line printed, exit status 0.
C28_Witness ==
    /\ entry = "login-once"
    /\ login.pc = "exited"
    /\ login.options # Null /\ login.options.validateAuth
    /\ login.acks = 2
    /\ login.snapshot = 1
    /\ login.printed = <<"STATE_SAVED">>
    /\ login.status = 0

----------------------------------------------------------------------------
(* The order of the list processListings returns.                          *)

\* The positions of tasks whose extraction did not fail, in increasing order.
RECURSIVE KeptPositions(_)
KeptPositions(n) ==
    IF n = 0 THEN <<>>
    ELSE IF n \in failedIdx THEN KeptPositions(n - 1)
    ELSE Append(KeptPositions(n - 1), n)

\* C29: whatever the order in which the workers finished, the returned
\* list holds, in the order of the input, one record for each reference
\* whose extraction did not fail and nothing else: record k carries the URL
\* of the k-th such reference, and no record appears twice.
C29_InputOrder ==
    ppc = "returned" =>
      LET kept == KeptPositions(Len(tasks)) IN
      /\ Len(returned) = Len(kept)
      /\ \A k \in 1..Len(returned) : returned[k].url = tasks[kept[k]]
      /\ \A j, k \in 1..Len(returned) : j # k => returned[j] # returned[k]

\* processListings has returned the records of the first, third and fourth
\* of four references, the second having failed.
C29_Witness ==
    /\ entry = "processListings" /\ ppc = "returned"
    /\ Len(tasks) = 4
    /\ failedIdx = {2}
    /\ Len(returned) = 3
    /\ returned[2].url = tasks[3]

----------------------------------------------------------------------------
(* The running set of one loop.                                            *)

\* C30: the running set never loses a reference, and at every moment of
\* the loop, its end included, it holds exactly the canonical references
\* of the links the scans have returned so far, whether the scope still
\* shows them or not; a scan adds the canonical references of the links
\* the scope shows and no other step changes the set.
C30_SetOnlyGrows ==
    /\ [](entry = "failures" => Range(collected) = seen)
    /\ [][lpc # "idle" =>
            /\ Range(collected) \subseteq Range(collected')
            /\ seen' # seen =>
                  Range(collected') = Range(collected) \cup Canon(scopeLinks)
            /\ lpc # "scan" => collected' = collected]_vars

\* The loop has returned a reference that the scope no longer shows.
C30_Witness ==
    /\ entry = "failures" /\ lpc = "done"
    /\ \E ref \in Range(collected) : ref \notin Canon(scopeLinks)
    /\ Range(collected) = seen

====
